---------------------------- MODULE Spec2Model ----------------------------
(***************************************************************************)
(* Model of the transformation engine of SaWinHETUtility (app/core.py).    *)
(*                                                                         *)
(* Text.  A Python string is a sequence of symbols.  A symbol is one       *)
(* character ("_", " ", ".", "-", "+", "/", a digit) or a maximal run of   *)
(* letters taken as one unit ("quality", "TRUE", "T").  startswith, split  *)
(* on "__", lstrip("_"), strip(), the numeric-suffix pattern and the       *)
(* number and date parsers only ever look at the single characters, so a   *)
(* run of letters behaves as one unit in all of them.  The letter runs     *)
(* "e", "E", "inf", "infinity", "nan" (which float() reads as numbers) are *)
(* not in the vocabulary that inputs are drawn from.                       *)
(*                                                                         *)
(* Values.  A JSON scalar is a record [t, s, n, e, neg]:                   *)
(*   t = "str"   s  the text                                               *)
(*   t = "bool"  n  1 for True, 0 for False                                *)
(*   t = "null"                                                            *)
(*   t = "int"   n  the integer                                            *)
(*   t = "float" the number (-1)^neg * n / 10^e, n >= 0, in lowest form    *)
(* The fields a tag does not use hold <<>> or 0.  Containers (list, dict)  *)
(* as raw input values are outside the model.                              *)
(***************************************************************************)
EXTENDS Integers, Sequences, FiniteSets, TLC

VARIABLES
    pc,                    \* position of the function under execution
    entries,               \* the entry list the running function iterates
    idx,                   \* loop position in entries (next index to read)
    boundary, mpd, mps, other,                          \* split_entries
    structures_by_type,                                 \* process_boundary
    proposals,                                          \* process_mpd
    systems, current_system, current_actual,            \* process_mps
    recommended_by_cat, current_recommended, current_element,
    result, alternative_energies,                       \* process_other
    pdf_bytes, images,                                  \* transform_json arguments
    document,                                           \* transform_json outcome
    raw_value, normalized, renormalized,                \* normalize_value, applied twice
    categories, notes, images_meta,                     \* convert (request handler)
    response, s3_calls

vars == <<pc, entries, idx, boundary, mpd, mps, other, structures_by_type,
          proposals, systems, current_system, current_actual,
          recommended_by_cat, current_recommended, current_element,
          result, alternative_energies, pdf_bytes, images, document,
          raw_value, normalized, renormalized, categories, notes, images_meta,
          response, s3_calls>>

-----------------------------------------------------------------------------
(* Values *)

VStr(s)   == [t |-> "str",   s |-> s,    n |-> 0, e |-> 0, neg |-> 0]
VBool(b)  == [t |-> "bool",  s |-> <<>>, n |-> IF b THEN 1 ELSE 0, e |-> 0, neg |-> 0]
VNull     == [t |-> "null",  s |-> <<>>, n |-> 0, e |-> 0, neg |-> 0]
VInt(n)   == [t |-> "int",   s |-> <<>>, n |-> n, e |-> 0, neg |-> 0]
VFloat(n, e, neg) == [t |-> "float", s |-> <<>>, n |-> n, e |-> e, neg |-> neg]

IsStr(v)  == v.t = "str"
IsNone(v) == v.t = "null"
IsTrue(v) == v.t = "bool" /\ v.n = 1          \* Python: v is True

Digits == <<"0", "1", "2", "3", "4", "5", "6", "7", "8", "9">>
IsDigit(c) == \E d \in 1..10 : Digits[d] = c
DigitVal(c) == (CHOOSE d \in 1..10 : Digits[d] = c) - 1
IsSpace(c) == c = " "

RECURSIVE Pow10(_)
Pow10(k) == IF k = 0 THEN 1 ELSE 10 * Pow10(k - 1)

AllDigits(s) == \A k \in 1..Len(s) : IsDigit(s[k])

\* value of a run of digits
RECURSIVE DigitsVal(_)
DigitsVal(s) ==
    IF s = <<>> THEN 0
    ELSE 10 * DigitsVal(SubSeq(s, 1, Len(s) - 1)) + DigitVal(s[Len(s)])

\* decimal digits of a natural number
RECURSIVE NatStr(_)
NatStr(n) ==
    IF n < 10 THEN <<Digits[n + 1]>>
    ELSE NatStr(n \div 10) \o <<Digits[(n % 10) + 1]>>

\* str.strip(): drop leading and trailing whitespace
RECURSIVE LStripSpace(_)
LStripSpace(s) ==
    IF s # <<>> /\ IsSpace(s[1]) THEN LStripSpace(Tail(s)) ELSE s
RECURSIVE RStripSpace(_)
RStripSpace(s) ==
    IF s # <<>> /\ IsSpace(s[Len(s)]) THEN RStripSpace(SubSeq(s, 1, Len(s) - 1)) ELSE s
strip(s) == RStripSpace(LStripSpace(s))

\* re.fullmatch(r"-?\d+", s)
IsIntText(s) ==
    LET body == IF s # <<>> /\ s[1] = "-" THEN Tail(s) ELSE s
    IN  body # <<>> /\ AllDigits(body)

\* float("inf"), float("nan"): no digits; neg = 1 for a text that starts with "-"
VFloatSpecial(name, neg) == [t |-> "float", s |-> <<name>>, n |-> 0, e |-> 0, neg |-> neg]
IsNaN(v) == v.t = "float" /\ v.s = <<"nan">>
IsInf(v) == v.t = "float" /\ v.s = <<"inf">>

\* float(s) on stripped text over the model's alphabet:
\* [+-]? ( digits [. digits*] | . digits ) [ (e|E) [+-]? digits ], a run of
\* digits may hold single underscores between digits, or [+-]? (inf | infinity | nan)
\* in any letter case; anything else raises ValueError
Unsigned(s) == IF s # <<>> /\ s[1] \in {"-", "+"} THEN Tail(s) ELSE s
InfTexts == {"inf", "Inf", "INF", "infinity", "Infinity", "INFINITY"}
NaNTexts == {"nan", "NaN", "NAN"}
IsSpecialText(s) == Len(Unsigned(s)) = 1 /\ Unsigned(s)[1] \in InfTexts \cup NaNTexts
ExpAt(s) == IF \E k \in 1..Len(s) : s[k] \in {"e", "E"}
            THEN CHOOSE k \in 1..Len(s) :
                    s[k] \in {"e", "E"} /\ \A j \in 1..(k - 1) : s[j] \notin {"e", "E"}
            ELSE 0
Mantissa(s) == IF ExpAt(s) = 0 THEN s ELSE SubSeq(s, 1, ExpAt(s) - 1)
Exponent(s) == IF ExpAt(s) = 0 THEN <<>> ELSE SubSeq(s, ExpAt(s) + 1, Len(s))
DotAt(s) == IF \E k \in 1..Len(s) : s[k] = "."
            THEN CHOOSE k \in 1..Len(s) : s[k] = "." /\ \A j \in 1..(k - 1) : s[j] # "."
            ELSE 0
IntPart(s)  == IF DotAt(s) = 0 THEN s ELSE SubSeq(s, 1, DotAt(s) - 1)
FracPart(s) == IF DotAt(s) = 0 THEN <<>> ELSE SubSeq(s, DotAt(s) + 1, Len(s))
\* digits with single underscores between them, or nothing
IsDigitRun(s) ==
    \/ s = <<>>
    \/ /\ IsDigit(s[1]) /\ IsDigit(s[Len(s)])
       /\ \A k \in 1..Len(s) : IsDigit(s[k]) \/ s[k] = "_"
       /\ \A k \in 1..(Len(s) - 1) : ~(s[k] = "_" /\ s[k + 1] = "_")
RunDigits(s) == SelectSeq(s, IsDigit)
IsFloatText(s) ==
    LET u == Unsigned(s)
        m == Mantissa(u)
        x == Exponent(u)
    IN  \/ IsSpecialText(s)
        \/ /\ IsDigitRun(IntPart(m))
           /\ IsDigitRun(FracPart(m))
           /\ Len(IntPart(m)) + Len(FracPart(m)) > 0
           /\ ExpAt(u) # 0 => (Unsigned(x) # <<>> /\ IsDigitRun(Unsigned(x)))

\* lowest form of n / 10^e
RECURSIVE Reduce(_, _)
Reduce(n, e) ==
    IF e > 0 /\ n % 10 = 0 THEN Reduce(n \div 10, e - 1) ELSE <<n, e>>

ParseFloat(s) ==
    LET u   == Unsigned(s)
        m   == Mantissa(u)
        x   == Exponent(u)
        neg == IF s[1] = "-" THEN 1 ELSE 0
        raw == DigitsVal(RunDigits(IntPart(m) \o FracPart(m)))
        ex  == IF x # <<>> /\ x[1] = "-" THEN 0 - DigitsVal(RunDigits(x))
               ELSE DigitsVal(RunDigits(x))
        sc  == Len(RunDigits(FracPart(m))) - ex
        red == IF sc >= 0 THEN Reduce(raw, sc) ELSE <<raw * Pow10(0 - sc), 0>>
    IN  IF IsSpecialText(s)
        THEN VFloatSpecial(IF u[1] \in NaNTexts THEN "nan" ELSE "inf", neg)
        ELSE VFloat(red[1], red[2], neg)

\* int(num) for a float num that came from "-?\d+" text (exact below 2^53)
FloatToInt(f) == VInt(IF f.neg = 1 THEN 0 - f.n ELSE f.n)

TextTRUE  == <<"TRUE">>
TextFALSE == <<"FALSE">>
TextNull  == <<"null">>

\* normalize_value returning the stripped text where the source returns raw
normalize_value_returnstripped(raw) ==
    IF ~IsStr(raw) THEN raw
    ELSE IF raw.s = TextTRUE THEN VBool(TRUE)
    ELSE IF raw.s = TextFALSE THEN VBool(FALSE)
    ELSE IF raw.s = TextNull THEN VNull
    ELSE LET s == strip(raw.s)
         IN  IF s = <<>> THEN VStr(s)
             ELSE IF ~IsFloatText(s) THEN VStr(s)
                  ELSE IF IsIntText(s) THEN FloatToInt(ParseFloat(s))
                       ELSE ParseFloat(s)

normalize_value(raw) ==
    IF ~IsStr(raw) THEN raw
    ELSE IF raw.s = TextTRUE THEN VBool(TRUE)
    ELSE IF raw.s = TextFALSE THEN VBool(FALSE)
    ELSE IF raw.s = TextNull THEN VNull
    ELSE LET s == strip(raw.s)
         IN  IF s = <<>> THEN raw
             ELSE IF ~IsFloatText(s) THEN raw
                  ELSE IF IsIntText(s) THEN FloatToInt(ParseFloat(s))
                       ELSE ParseFloat(s)

\* str(v) of a scalar
FloatStr(f) ==
    LET ds   == NatStr(f.n)
        pad  == IF Len(ds) > f.e THEN ds
                ELSE [k \in 1..(f.e + 1) |->
                        IF k <= f.e + 1 - Len(ds) THEN "0" ELSE ds[k - (f.e + 1 - Len(ds))]]
        ip   == SubSeq(pad, 1, Len(pad) - f.e)
        fp   == IF f.e = 0 THEN <<"0">> ELSE SubSeq(pad, Len(pad) - f.e + 1, Len(pad))
    IN  IF IsNaN(f) THEN <<"nan">>
        ELSE (IF f.neg = 1 THEN <<"-">> ELSE <<>>)
               \o (IF IsInf(f) THEN <<"inf">> ELSE ip \o <<".">> \o fp)

str(v) ==
    CASE v.t = "str"   -> v.s
      [] v.t = "bool"  -> IF v.n = 1 THEN <<"True">> ELSE <<"False">>
      [] v.t = "null"  -> <<"None">>
      [] v.t = "int"   -> IF v.n < 0 THEN <<"-">> \o NatStr(0 - v.n) ELSE NatStr(v.n)
      [] v.t = "float" -> FloatStr(v)

\* Python ==, which is also equality of dictionary keys: numbers and booleans
\* compare by numeric value (True == 1 == 1.0), NaN equals nothing, everything
\* else by type and content
IsNum(v) == v.t \in {"bool", "int", "float"}
PyEq(a, b) ==
    IF IsNaN(a) \/ IsNaN(b) THEN FALSE
    ELSE IF IsInf(a) \/ IsInf(b) THEN a = b
    ELSE IF IsNum(a) /\ IsNum(b)
    THEN LET sa == IF a.neg = 1 THEN 0 - a.n ELSE a.n
             sb == IF b.neg = 1 THEN 0 - b.n ELSE b.n
         IN  sa * Pow10(b.e) = sb * Pow10(a.e)
    ELSE a = b

\* isinstance(v, str) and v.strip() == ""
IsBlankStr(v) == IsStr(v) /\ strip(v.s) = <<>>
\* v in ("", None)
IsEmptyOrNone(v) == IsNone(v) \/ (IsStr(v) /\ v.s = <<>>)

-----------------------------------------------------------------------------
(* Flat entries and keys *)

Entry(k, v) == [k |-> k, v |-> v]

BoundaryPrefix == <<"boundaryAndOpeningStructures", "_", "_">>
MpdPrefix      == <<"modernisationProposalDetails", "_", "_">>
MpsPrefix      == <<"modernisationProposalsOfBuildingServicesSystems", "_", "_">>

\* str.startswith
startswith(s, p) == Len(s) >= Len(p) /\ \A k \in 1..Len(p) : s[k] = p[k]

\* The state every function starts from (its local variables as first assigned)
SplitVarsInit    == boundary = <<>> /\ mpd = <<>> /\ mps = <<>> /\ other = <<>>
BoundaryVarsInit == structures_by_type = <<>>
MpdVarsInit      == proposals = <<>>

splitVars    == <<boundary, mpd, mps, other>>
boundaryVars == <<structures_by_type>>
mpdVars      == <<proposals>>

-----------------------------------------------------------------------------
(* split_entries *)

\* the branch of the if/elif chain an entry's key takes
split_route_noseparator(key) ==
    IF startswith(key, <<BoundaryPrefix[1]>>) THEN "boundary"
    ELSE IF startswith(key, <<MpdPrefix[1]>>) THEN "mpd"
    ELSE IF startswith(key, <<MpsPrefix[1]>>) THEN "mps"
    ELSE "other"

split_route(key) ==
    IF startswith(key, BoundaryPrefix) THEN "boundary"
    ELSE IF startswith(key, MpdPrefix) THEN "mpd"
    ELSE IF startswith(key, MpsPrefix) THEN "mps"
    ELSE "other"

\* the four lists after the loop has consumed es, as a record
RECURSIVE split_entries(_)
split_entries(es) ==
    IF es = <<>> THEN [boundary |-> <<>>, mpd |-> <<>>, mps |-> <<>>, other |-> <<>>]
    ELSE LET r == split_entries(SubSeq(es, 1, Len(es) - 1))
             e == es[Len(es)]
             w == split_route(e.k)
         IN  [r EXCEPT ![w] = Append(@, e)]

-----------------------------------------------------------------------------
(* Records of process_mps.  A Python None is a record with some = FALSE; an
   optional dictionary key is a has* flag beside the field. *)

NoElement == [some |-> FALSE, hasName |-> FALSE, name |-> VNull,
              hasDesc |-> FALSE, desc |-> VNull, hasExc |-> FALSE, exc |-> VNull]
NoActual  == [some |-> FALSE, fields |-> <<>>]
NoSystem  == [some |-> FALSE, hasType |-> FALSE, type |-> VNull,
              hasNote |-> FALSE, note |-> VNull,
              hasActual |-> FALSE, actualNull |-> FALSE, actual |-> <<>>,
              hasRec |-> FALSE, rec |-> <<>>]
NoGroups  == [some |-> FALSE, groups |-> <<>>]

MpsVarsInit ==
    /\ systems = <<>>
    /\ current_system = NoSystem
    /\ current_actual = NoActual
    /\ recommended_by_cat = NoGroups
    /\ current_recommended = 0
    /\ current_element = NoElement

\* process_other: result maps each path (a sequence of key segments) to a node
EmptyDict == <<>> :> [kind |-> "dict", sv |-> VNull, lv |-> <<>>]
OtherVarsInit == result = EmptyDict /\ alternative_energies = <<>>

\* the outcome of transform_json: nothing yet, the document returned, or
\* an error raised.  The three record lists and the attachments, which hang
\* under fixed top-level keys of doc, are kept beside it.
NoDocument ==
    [status |-> "none", doc |-> EmptyDict, boundary |-> <<>>, mpd |-> <<>>,
     mps |-> <<>>, pdf |-> <<>>, photos |-> <<>>]
TransformVarsInit == pdf_bytes = <<>> /\ images = <<>> /\ document = NoDocument
NormalizeVarsInit == raw_value = VNull /\ normalized = VNull /\ renormalized = VNull
\* no request received: no response, no call of the object store
ConvertVarsInit ==
    /\ categories = <<>> /\ notes = <<>> /\ images_meta = <<>>
    /\ response = 0 /\ s3_calls = <<>>

mpsVars   == <<systems, current_system, current_actual, recommended_by_cat,
               current_recommended, current_element>>
otherVars == <<result, alternative_energies>>
transformVars == <<pdf_bytes, images, document>>
normalizeVars == <<raw_value, normalized, renormalized>>
convertVars == <<categories, notes, images_meta, response, s3_calls>>

-----------------------------------------------------------------------------
(* Specification of split_entries: the loop of lines 15-23, one entry a step *)

MaxSplitLen == 3

SplitKeys ==
    { BoundaryPrefix \o <<"a">>,
      MpdPrefix \o <<"a">>,
      MpsPrefix \o <<"a">>,
      MpsPrefix,
      <<"a", "_", "_", "b">>,
      <<BoundaryPrefix[1], "_", "a">>,
      <<MpdPrefix[1]>>,
      <<"a", "_", "_">> \o BoundaryPrefix \o <<"b">> }
SplitValues == { VStr(<<"x">>), VInt(1) }
SplitEntrySet == { Entry(k, v) : k \in SplitKeys, v \in SplitValues }
SplitInputs == UNION { [1..n -> SplitEntrySet] : n \in 0..MaxSplitLen }

InitSplit ==
    /\ pc = "split"
    /\ entries \in SplitInputs
    /\ idx = 1
    /\ SplitVarsInit /\ BoundaryVarsInit /\ MpdVarsInit /\ MpsVarsInit
    /\ OtherVarsInit /\ TransformVarsInit /\ NormalizeVarsInit /\ ConvertVarsInit

split_step ==
    /\ pc = "split"
    /\ idx <= Len(entries)
    /\ LET e == entries[idx]
           w == split_route(e.k)
       IN  /\ boundary' = IF w = "boundary" THEN Append(boundary, e) ELSE boundary
           /\ mpd'      = IF w = "mpd"      THEN Append(mpd, e)      ELSE mpd
           /\ mps'      = IF w = "mps"      THEN Append(mps, e)      ELSE mps
           /\ other'    = IF w = "other"    THEN Append(other, e)    ELSE other
    /\ idx' = idx + 1
    /\ UNCHANGED <<pc, entries, boundaryVars, mpdVars, mpsVars, otherVars, transformVars,
                   normalizeVars, convertVars>>

split_return ==
    /\ pc = "split"
    /\ idx > Len(entries)
    /\ pc' = "split_done"
    /\ UNCHANGED <<entries, idx, splitVars, boundaryVars, mpdVars, mpsVars,
                   otherVars, transformVars,
                   normalizeVars, convertVars>>

NextSplit == split_step \/ split_return
SpecSplit == InitSplit /\ [][NextSplit]_vars

\* C1: the four lists partition the entries read so far: each list is exactly
\* the entries whose key starts with its family's prefix (other: with none of
\* the three), in input order, so no entry is dropped, duplicated or invented.
InFamily(e, p) == Len(e.k) >= Len(p) /\ SubSeq(e.k, 1, Len(p)) = p
IsBoundaryEntry(e) == InFamily(e, BoundaryPrefix)
IsMpdEntry(e)      == InFamily(e, MpdPrefix)
IsMpsEntry(e)      == InFamily(e, MpsPrefix)
IsOtherEntry(e)    == ~IsBoundaryEntry(e) /\ ~IsMpdEntry(e) /\ ~IsMpsEntry(e)
C1_SplitPartitions ==
    pc \in {"split", "split_done"} =>
        LET seen == SubSeq(entries, 1, idx - 1)
        IN  /\ boundary = SelectSeq(seen, IsBoundaryEntry)
            /\ mpd      = SelectSeq(seen, IsMpdEntry)
            /\ mps      = SelectSeq(seen, IsMpsEntry)
            /\ other    = SelectSeq(seen, IsOtherEntry)
            /\ Len(boundary) + Len(mpd) + Len(mps) + Len(other) = Len(seen)
            /\ (pc = "split_done" => seen = entries)

\* C1 witness: a finished split that filled a family list and the other list,
\* one of them with two entries whose order can be observed
C1_Witness ==
    /\ pc = "split_done"
    /\ Len(entries) = MaxSplitLen
    /\ Len(boundary) = 1
    /\ Len(other) >= 2 /\ other[1] # other[2]

-----------------------------------------------------------------------------
(* process_boundary *)

BoundaryStride == 4

\* entries[i:i+n] for the 1-based start position i
Slice(es, i, n) == SubSeq(es, i, IF i + n - 1 <= Len(es) THEN i + n - 1 ELSE Len(es))

\* position of key k in an insertion-ordered dictionary (0: absent)
KeyPos(d, k) ==
    IF \E j \in 1..Len(d) : d[j].key = k
    THEN CHOOSE j \in 1..Len(d) : d[j].key = k
    ELSE 0

QualityEntry(quality, u, dimension) == [quality |-> quality, U |-> u, dimension |-> dimension]

\* lines 77-90 with the "not in" test dropped: a new record for every window
boundary_upsert_alwaysnew(sbt, type_key, q) ==
    Append(sbt, [key |-> type_key, typeOfStructure |-> type_key,
                 energeticQualities |-> <<q>>])

\* lines 77-90: create the record on first sight of the key, then append
boundary_upsert(sbt, type_key, q) ==
    LET created == IF KeyPos(sbt, type_key) = 0
                   THEN Append(sbt, [key |-> type_key, typeOfStructure |-> type_key,
                                     energeticQualities |-> <<>>])
                   ELSE sbt
        p == KeyPos(created, type_key)
    IN  [created EXCEPT ![p].energeticQualities = Append(@, q)]

\* one iteration of the loop, lines 64-90, on group = entries[i:i+4]
boundary_window(sbt, group) ==
    IF Len(group) < BoundaryStride THEN sbt
    ELSE LET type_of_structure == normalize_value(group[1].v)
             quality   == normalize_value(group[2].v)
             u         == normalize_value(group[3].v)
             dimension == normalize_value(group[4].v)
         IN  IF IsNone(quality) \/ IsBlankStr(quality) THEN sbt
             ELSE boundary_upsert(sbt, str(type_of_structure),
                                  QualityEntry(quality, u, dimension))

RECURSIVE boundary_loop(_, _, _)
boundary_loop(sbt, es, i) ==
    IF i > Len(es) THEN sbt
    ELSE boundary_loop(boundary_window(sbt, Slice(es, i, BoundaryStride)), es,
                       i + BoundaryStride)

\* list(structures_by_type.values())
DictValues(sbt) ==
    [j \in 1..Len(sbt) |-> [typeOfStructure |-> sbt[j].typeOfStructure,
                            energeticQualities |-> sbt[j].energeticQualities]]

process_boundary(es) == DictValues(boundary_loop(<<>>, es, 1))

(* Specification of process_boundary: one window a step *)

MaxBoundaryWindows == 3

BKey(name) == BoundaryPrefix \o <<name>>
BoundaryTypes     == { <<"T">>, <<"1">>, <<" ", "1">> }
BoundaryQualities == { <<"good">>, <<"B">> }
BoundaryBlanks    == { <<>>, <<" ">>, <<"null">> }
BoundaryWindow(t, q) ==
    << Entry(BKey("typeOfStructure"), VStr(t)),
       Entry(BKey("quality"), VStr(q)),
       Entry(BKey("U"), VStr(<<"1", ".", "5">>)),
       Entry(BKey("dimension"), VStr(<<"2">>)) >>
BoundaryWindowSet ==
    { BoundaryWindow(t, q) : t \in BoundaryTypes, q \in BoundaryQualities }
      \cup { BoundaryWindow(<<"T">>, q) : q \in BoundaryBlanks }
BoundaryTrailing ==
    { SubSeq(<< Entry(BKey("typeOfStructure"), VStr(<<"T">>)),
                Entry(BKey("quality"), VStr(<<"good">>)),
                Entry(BKey("U"), VStr(<<"1">>)) >>, 1, n) : n \in {0, BoundaryStride - 1} }

RECURSIVE Flatten(_)
Flatten(ss) == IF ss = <<>> THEN <<>> ELSE Head(ss) \o Flatten(Tail(ss))

BoundaryInputs ==
    { Flatten(ws) \o t :
        ws \in UNION { [1..n -> BoundaryWindowSet] : n \in 0..MaxBoundaryWindows },
        t \in BoundaryTrailing }

InitBoundary ==
    /\ pc = "boundary"
    /\ entries \in BoundaryInputs
    /\ idx = 1
    /\ SplitVarsInit /\ BoundaryVarsInit /\ MpdVarsInit /\ MpsVarsInit
    /\ OtherVarsInit /\ TransformVarsInit /\ NormalizeVarsInit /\ ConvertVarsInit

boundary_step ==
    /\ pc = "boundary"
    /\ idx <= Len(entries)
    /\ structures_by_type' =
           boundary_window(structures_by_type, Slice(entries, idx, BoundaryStride))
    /\ idx' = idx + BoundaryStride
    /\ UNCHANGED <<pc, entries, splitVars, mpdVars, mpsVars, otherVars, transformVars,
                   normalizeVars, convertVars>>

boundary_return ==
    /\ pc = "boundary"
    /\ idx > Len(entries)
    /\ pc' = "boundary_done"
    /\ UNCHANGED <<entries, idx, splitVars, boundaryVars, mpdVars, mpsVars,
                   otherVars, transformVars,
                   normalizeVars, convertVars>>

NextBoundary == boundary_step \/ boundary_return
SpecBoundary == InitBoundary /\ [][NextBoundary]_vars

\* The windows of 4 the loop has read so far, each with what the claim says of
\* it: whether it is kept, its key and its quality entry
BoundaryWindowsRead ==
    LET n == IF (idx - 1) \div BoundaryStride <= Len(entries) \div BoundaryStride
             THEN (idx - 1) \div BoundaryStride
             ELSE Len(entries) \div BoundaryStride
    IN  [k \in 1..n |->
            LET b == BoundaryStride * (k - 1)
                q == normalize_value(entries[b + 2].v)
            IN  [kept |-> ~(q = VNull \/ (q.t = "str" /\ strip(q.s) = <<>>)),
                 key  |-> str(normalize_value(entries[b + 1].v)),
                 q    |-> [quality   |-> q,
                           U         |-> normalize_value(entries[b + 3].v),
                           dimension |-> normalize_value(entries[b + 4].v)]]]

FirstKept(ws, key) ==
    CHOOSE k \in 1..Len(ws) :
        /\ ws[k].kept /\ ws[k].key = key
        /\ \A j \in 1..(k - 1) : ~(ws[j].kept /\ ws[j].key = key)

\* C4: process_boundary reads consecutive windows of 4, drops a trailing
\* partial window and every window whose quality is null or blank, and upserts
\* the others by str(type): one record per key, records in order of the first
\* kept window of their key, each listing its kept windows in window order.
C4_BoundaryUpsert ==
    pc \in {"boundary", "boundary_done"} =>
        LET ws  == BoundaryWindowsRead
            sbt == structures_by_type
        IN  /\ \A j, k \in 1..Len(sbt) : sbt[j].key = sbt[k].key => j = k
            /\ {sbt[j].key : j \in 1..Len(sbt)}
                 = {ws[k].key : k \in {m \in 1..Len(ws) : ws[m].kept}}
            /\ \A j \in 1..Len(sbt) :
                 LET Mine(w) == w.kept /\ w.key = sbt[j].key
                     mine    == SelectSeq(ws, Mine)
                 IN  /\ sbt[j].typeOfStructure = sbt[j].key
                     /\ sbt[j].energeticQualities = [m \in 1..Len(mine) |-> mine[m].q]
            /\ \A j, k \in 1..Len(sbt) :
                 j < k => FirstKept(ws, sbt[j].key) < FirstKept(ws, sbt[k].key)
            /\ (pc = "boundary_done" => Len(ws) = Len(entries) \div BoundaryStride)

\* C4 witness: three full windows and a partial one; the middle window was
\* dropped, the first and third share a key and are one record of two entries
C4_Witness ==
    /\ pc = "boundary_done"
    /\ Len(entries) > 3 * BoundaryStride
    /\ Len(entries) % BoundaryStride # 0
    /\ ~BoundaryWindowsRead[2].kept
    /\ entries[1].v # entries[2 * BoundaryStride + 1].v
    /\ Len(structures_by_type) = 1
    /\ Len(structures_by_type[1].energeticQualities) = 2
    /\ structures_by_type[1].energeticQualities[1].quality
         # structures_by_type[1].energeticQualities[2].quality

-----------------------------------------------------------------------------
(* process_mpd *)

MpdStride == 10

Proposal(g) ==
    [structureType        |-> normalize_value(g[1].v),
     structureNote        |-> normalize_value(g[2].v),
     structureSurfaceArea |-> normalize_value(g[3].v),
     airTightness         |-> normalize_value(g[4].v),
     note                 |-> normalize_value(g[5].v),
     currentStateValue    |-> normalize_value(g[6].v),
     proposalEnergeticQualities |->
        << [quality |-> VStr(<<"good">>),
            u |-> normalize_value(g[7].v), dimension |-> normalize_value(g[8].v)],
           [quality |-> VStr(<<"excellent">>),
            u |-> normalize_value(g[9].v), dimension |-> normalize_value(g[10].v)] >>]

\* lines 100-138 with the test of line 116 reduced to "structure_type is None"
mpd_window_noneonly(ps, group) ==
    IF Len(group) < MpdStride THEN ps
    ELSE IF IsNone(normalize_value(group[1].v)) THEN ps
         ELSE Append(ps, Proposal(group))

\* one iteration of the loop, lines 100-138, on group = entries[i:i+10]
mpd_window(ps, group) ==
    IF Len(group) < MpdStride THEN ps
    ELSE LET structure_type == normalize_value(group[1].v)
         IN  IF IsNone(structure_type) \/ IsBlankStr(structure_type) THEN ps
             ELSE Append(ps, Proposal(group))

RECURSIVE mpd_loop(_, _, _)
mpd_loop(ps, es, i) ==
    IF i > Len(es) THEN ps
    ELSE mpd_loop(mpd_window(ps, Slice(es, i, MpdStride)), es, i + MpdStride)

process_mpd(es) == mpd_loop(<<>>, es, 1)

(* Specification of process_mpd: one window a step *)

MaxMpdWindows == 3

MKey(name) == MpdPrefix \o <<name>>
MpdFieldNames ==
    << "structureType", "structureNote", "structureSurfaceArea", "airTightness",
       "note", "currentStateValue", "goodU", "goodDimensions", "excellentU",
       "excellentDimensions" >>
\* a window: its first field is first; field k > 1 holds the number k (+ 10 in
\* the second variant), so a shifted window shows in every field
MpdWindow(first, variant) ==
    [k \in 1..MpdStride |->
        Entry(MKey(MpdFieldNames[k]),
              IF k = 1 THEN VStr(first) ELSE VStr(NatStr(k + 10 * variant)))]
MpdWindowSet ==
    { MpdWindow(f, v) : f \in { <<"Wall">>, <<"1">> }, v \in {0, 1} }
      \cup { MpdWindow(f, 0) : f \in { <<>>, <<" ">>, <<"null">> } }
MpdTrailing == { SubSeq(MpdWindow(<<"Wall">>, 0), 1, n) : n \in {0, 7, MpdStride - 1} }
MpdInputs ==
    { Flatten(ws) \o t :
        ws \in UNION { [1..n -> MpdWindowSet] : n \in 0..MaxMpdWindows },
        t \in MpdTrailing }

InitMpd ==
    /\ pc = "mpd"
    /\ entries \in MpdInputs
    /\ idx = 1
    /\ SplitVarsInit /\ BoundaryVarsInit /\ MpdVarsInit /\ MpsVarsInit
    /\ OtherVarsInit /\ TransformVarsInit /\ NormalizeVarsInit /\ ConvertVarsInit

mpd_step ==
    /\ pc = "mpd"
    /\ idx <= Len(entries)
    /\ proposals' = mpd_window(proposals, Slice(entries, idx, MpdStride))
    /\ idx' = idx + MpdStride
    /\ UNCHANGED <<pc, entries, splitVars, boundaryVars, mpsVars, otherVars, transformVars,
                   normalizeVars, convertVars>>

mpd_return ==
    /\ pc = "mpd"
    /\ idx > Len(entries)
    /\ pc' = "mpd_done"
    /\ UNCHANGED <<entries, idx, splitVars, boundaryVars, mpdVars, mpsVars,
                   otherVars, transformVars,
                   normalizeVars, convertVars>>

NextMpd == mpd_step \/ mpd_return
SpecMpd == InitMpd /\ [][NextMpd]_vars

\* the full windows of 10 the loop has read so far
MpdWindowsRead ==
    LET n == IF (idx - 1) \div MpdStride <= Len(entries) \div MpdStride
             THEN (idx - 1) \div MpdStride
             ELSE Len(entries) \div MpdStride
    IN  [k \in 1..n |->
            LET b  == MpdStride * (k - 1)
                nv(j) == normalize_value(entries[b + j].v)
            IN  [kept |-> ~(nv(1) = VNull \/ (nv(1).t = "str" /\ strip(nv(1).s) = <<>>)),
                 rec  |-> [structureType |-> nv(1), structureNote |-> nv(2),
                           structureSurfaceArea |-> nv(3), airTightness |-> nv(4),
                           note |-> nv(5), currentStateValue |-> nv(6),
                           proposalEnergeticQualities |->
                             << [quality |-> VStr(<<"good">>), u |-> nv(7),
                                 dimension |-> nv(8)],
                                [quality |-> VStr(<<"excellent">>), u |-> nv(9),
                                 dimension |-> nv(10)] >>]]]

MpdIsKept(w) == w.kept

\* C5: process_mpd emits one record per full window of 10 whose normalized
\* first field is neither null nor blank, in window order and without merging;
\* other windows and a trailing partial group emit nothing, so there are never
\* more than floor(n/10) records.
C5_MpdOnePerWindow ==
    pc \in {"mpd", "mpd_done"} =>
        LET kept == SelectSeq(MpdWindowsRead, MpdIsKept)
        IN  /\ proposals = [m \in 1..Len(kept) |-> kept[m].rec]
            /\ Len(proposals) <= Len(entries) \div MpdStride
            /\ (pc = "mpd_done" => Len(MpdWindowsRead) = Len(entries) \div MpdStride)

\* C5 witness: three windows and a trailing group of 7; the second window has
\* a blank first field, the first and third share a structure type and are
\* two records
C5_Witness ==
    /\ pc = "mpd_done"
    /\ Len(entries) = 3 * MpdStride + 7
    /\ IsBlankStr(normalize_value(entries[MpdStride + 1].v))
    /\ Len(proposals) = 2
    /\ proposals[1].structureType = proposals[2].structureType
    /\ proposals[1] # proposals[2]

-----------------------------------------------------------------------------
(* process_mps.  The state of the function is a record S of its local
   variables; the nested functions and the loop body map S to S.
   recommended_by_cat is the insertion-ordered dictionary as the sequence of
   its groups: a group's dictionary key is None when catless, else its cat.
   current_recommended refers to a group of recommended_by_cat by position
   (0: None); the code only ever holds a reference to a group of the current
   dictionary. *)

\* str.split("__"): left to right, cutting at each pair of underscores
RECURSIVE SplitFrom(_, _)
SplitFrom(s, cur) ==
    IF s = <<>> THEN <<cur>>
    ELSE IF Len(s) >= 2 /\ s[1] = "_" /\ s[2] = "_"
         THEN <<cur>> \o SplitFrom(SubSeq(s, 3, Len(s)), <<>>)
         ELSE SplitFrom(Tail(s), Append(cur, s[1]))
split(s) == SplitFrom(s, <<>>)

\* str.lstrip("_")
RECURSIVE lstrip_underscore(_)
lstrip_underscore(s) ==
    IF s # <<>> /\ s[1] = "_" THEN lstrip_underscore(Tail(s)) ELSE s

\* lines 226-229, for a key that starts with the family prefix
mps_parts(flat_key) ==
    split(lstrip_underscore(SubSeq(flat_key, Len(MpsPrefix) + 1, Len(flat_key))))

MpsState(sy, cs, ca, rbc, cr, ce) ==
    [systems |-> sy, current_system |-> cs, current_actual |-> ca,
     recommended_by_cat |-> rbc, current_recommended |-> cr, current_element |-> ce]
MpsInitState == MpsState(<<>>, NoSystem, NoActual, NoGroups, 0, NoElement)

\* recommended_by_cat.get(key): the position of the group whose key equals key
GroupPos(groups, catless, cat_value) ==
    LET Hit(j) == IF catless THEN groups[j].catless
                  ELSE ~groups[j].catless /\ PyEq(groups[j].cat, cat_value)
    IN  IF \E j \in 1..Len(groups) : Hit(j)
        THEN CHOOSE j \in 1..Len(groups) : Hit(j)
        ELSE 0

\* lines 161-179 without the lookup of line 170: a new group on every call
get_or_create_recommended_alwaysnew(S, cat_value) ==
    LET groups  == S.recommended_by_cat.groups
        catless == IsEmptyOrNone(cat_value)
        added   == Append(groups, [catless |-> catless,
                                   cat |-> IF catless THEN VNull ELSE cat_value,
                                   elems |-> <<>>])
    IN  [S EXCEPT !.recommended_by_cat = [some |-> TRUE, groups |-> added],
                  !.current_recommended = Len(added)]

get_or_create_recommended(S, cat_value) ==
    LET groups  == IF S.recommended_by_cat.some THEN S.recommended_by_cat.groups ELSE <<>>
        catless == IsEmptyOrNone(cat_value)
        pos     == GroupPos(groups, catless, cat_value)
        added   == IF pos = 0
                   THEN Append(groups, [catless |-> catless,
                                        cat |-> IF catless THEN VNull ELSE cat_value,
                                        elems |-> <<>>])
                   ELSE groups
    IN  [S EXCEPT !.recommended_by_cat = [some |-> TRUE, groups |-> added],
                  !.current_recommended = IF pos = 0 THEN Len(added) ELSE pos]

finalize_element(S) ==
    IF ~S.current_element.some THEN S
    ELSE LET S1 == IF S.current_recommended = 0
                   THEN get_or_create_recommended(S, VNull)
                   ELSE S
         IN  [S1 EXCEPT !.recommended_by_cat.groups[S1.current_recommended].elems =
                            Append(@, S.current_element),
                        !.current_element = NoElement]

\* dict.get / dict[key] = value on an insertion-ordered dictionary of fields
FieldPos(fields, f) ==
    IF \E j \in 1..Len(fields) : fields[j].f = f
    THEN CHOOSE j \in 1..Len(fields) : fields[j].f = f
    ELSE 0
SetField(fields, f, v) ==
    IF FieldPos(fields, f) = 0 THEN Append(fields, [f |-> f, v |-> v])
    ELSE [fields EXCEPT ![FieldPos(fields, f)].v = v]

\* lines 201-207 without the test of line 204: the accumulator is always attached
attach_actual_nonull(sys, actual) ==
    IF ~actual.some THEN sys
    ELSE [sys EXCEPT !.hasActual = TRUE, !.actualNull = FALSE,
                     !.actual = actual.fields]

\* lines 201-207
attach_actual(sys, actual) ==
    IF ~actual.some THEN sys
    ELSE LET p == FieldPos(actual.fields, <<"quality">>)
         IN  IF p # 0 /\ actual.fields[p].v = VStr(<<>>)
             THEN [sys EXCEPT !.hasActual = TRUE, !.actualNull = TRUE]
             ELSE [sys EXCEPT !.hasActual = TRUE, !.actualNull = FALSE,
                              !.actual = actual.fields]

finalize_system(S) ==
    IF ~S.current_system.some THEN S
    ELSE LET S1   == finalize_element(S)
             sys1 == attach_actual(S1.current_system, S1.current_actual)
             sys2 == IF S1.recommended_by_cat.some
                        /\ Len(S1.recommended_by_cat.groups) > 0
                     THEN [sys1 EXCEPT !.hasRec = TRUE,
                                       !.rec = S1.recommended_by_cat.groups]
                     ELSE sys1
         IN  MpsState(Append(S1.systems, sys2), NoSystem, NoActual, NoGroups, 0, NoElement)

\* lines 232-239 without the call of finalize_system: the open system is lost
mps_new_system_nofinalize(S, value) ==
    MpsState(S.systems,
             [NoSystem EXCEPT !.some = TRUE, !.hasType = TRUE, !.type = value],
             NoActual, NoGroups, 0, NoElement)

\* lines 232-239 without the resets of lines 235-238
mps_new_system_noreset(S, value) ==
    LET S1 == finalize_system(S)
    IN  MpsState(S1.systems,
                 [NoSystem EXCEPT !.some = TRUE, !.hasType = TRUE, !.type = value],
                 S1.current_actual, S1.recommended_by_cat, S1.current_recommended,
                 S1.current_element)

\* lines 232-239
mps_new_system(S, value) ==
    LET S1 == finalize_system(S)
    IN  MpsState(S1.systems,
                 [NoSystem EXCEPT !.some = TRUE, !.hasType = TRUE, !.type = value],
                 NoActual, NoGroups, 0, NoElement)

\* lines 266-281
mps_system_element(S, field, value) ==
    IF field = <<"name">>
    THEN [finalize_element(S) EXCEPT
             !.current_element = [NoElement EXCEPT !.some = TRUE, !.hasName = TRUE,
                                                   !.name = value]]
    ELSE IF field = <<"description">>
    THEN [S EXCEPT !.current_element.some = TRUE, !.current_element.hasDesc = TRUE,
                   !.current_element.desc = value]
    ELSE IF field = <<"isExcellentLevel">>
    THEN [S EXCEPT !.current_element.some = TRUE, !.current_element.hasExc = TRUE,
                   !.current_element.exc = value]
    ELSE S

\* the loop body, lines 224-283
mps_entry(S, e) ==
    LET value == normalize_value(e.v)
        parts == mps_parts(e.k)
    IN  IF parts[1] = <<"buildingServiceSystemType">>
        THEN mps_new_system(S, value)
        ELSE IF parts[1] = <<"note">> /\ Len(parts) = 1
        THEN [S EXCEPT !.current_system.some = TRUE, !.current_system.hasNote = TRUE,
                       !.current_system.note = value]
        ELSE IF parts[1] = <<"actualEnergeticQuality">> /\ Len(parts) = 2
        THEN [S EXCEPT !.current_actual =
                 [some |-> TRUE, fields |-> SetField(@.fields, parts[2], value)]]
        ELSE IF parts[1] = <<"recommendedModernisations">>
                /\ Len(parts) = 2 /\ parts[2] = <<"modernisationCategory">>
        THEN get_or_create_recommended(finalize_element(S), value)
        ELSE IF parts[1] = <<"recommendedModernisations">>
                /\ Len(parts) = 3 /\ parts[2] = <<"systemElements">>
        THEN mps_system_element(S, parts[3], value)
        ELSE S

RECURSIVE mps_loop(_, _)
mps_loop(S, es) ==
    IF es = <<>> THEN S ELSE mps_loop(mps_entry(S, Head(es)), Tail(es))

process_mps(es) == finalize_system(mps_loop(MpsInitState, es)).systems

(* Specifications of process_mps.  The argument list is supplied one entry at
   a time: entries is the part of the list the loop has read, mps_step reads
   the next entry, mps_return is the end of the list (lines 286-288). *)

MpsLocals ==
    MpsState(systems, current_system, current_actual, recommended_by_cat,
             current_recommended, current_element)

MpsAssign(S) ==
    /\ systems' = S.systems
    /\ current_system' = S.current_system
    /\ current_actual' = S.current_actual
    /\ recommended_by_cat' = S.recommended_by_cat
    /\ current_recommended' = S.current_recommended
    /\ current_element' = S.current_element

\* the locals hold state S
MpsStartIn(S) ==
    /\ systems = S.systems
    /\ current_system = S.current_system
    /\ current_actual = S.current_actual
    /\ recommended_by_cat = S.recommended_by_cat
    /\ current_recommended = S.current_recommended
    /\ current_element = S.current_element

mps_step(EntrySet, MaxLen) ==
    /\ pc = "mps"
    /\ Len(entries) < MaxLen
    /\ \E e \in EntrySet :
          /\ entries' = Append(entries, e)
          /\ MpsAssign(mps_entry(MpsLocals, e))
    /\ idx' = idx + 1
    /\ UNCHANGED <<pc, splitVars, boundaryVars, mpdVars, otherVars, transformVars,
                   normalizeVars, convertVars>>

mps_return ==
    /\ pc = "mps"
    /\ MpsAssign(finalize_system(MpsLocals))
    /\ pc' = "mps_done"
    /\ UNCHANGED <<entries, idx, splitVars, boundaryVars, mpdVars, otherVars, transformVars,
                   normalizeVars, convertVars>>

SKey(suffix) == MpsPrefix \o suffix
SysType(v) == Entry(SKey(<<"buildingServiceSystemType">>), VStr(v))
SysNote(v) == Entry(SKey(<<"note">>), VStr(v))
Category(v) ==
    Entry(SKey(<<"recommendedModernisations", "_", "_", "modernisationCategory">>), VStr(v))
Element(field, v) ==
    Entry(SKey(<<"recommendedModernisations", "_", "_", "systemElements", "_", "_", field>>),
          VStr(v))
ActualQ(field, v) == Entry(SKey(<<"actualEnergeticQuality", "_", "_", field>>), VStr(v))

(* Specification for the system records: streams of markers, notes and
   entries of the other kinds *)

MaxSystemsLen == 4

SystemsEntrySet ==
    { SysType(<<"H">>), SysType(<<" ", "1">>),
      Entry(SKey(<<"_", "buildingServiceSystemType", "_", "_", "x">>), VStr(<<"X">>)),
      SysNote(<<"n">>),
      Element("name", <<"E">>),
      ActualQ("quality", <<"A">>),
      Entry(SKey(<<"note", "_", "_", "x">>), VStr(<<"m">>)) }

InitMps ==
    /\ pc = "mps"
    /\ entries = <<>>
    /\ idx = 1
    /\ SplitVarsInit /\ BoundaryVarsInit /\ MpdVarsInit /\ MpsVarsInit
    /\ OtherVarsInit /\ TransformVarsInit /\ NormalizeVarsInit /\ ConvertVarsInit

NextMpsSystems == mps_step(SystemsEntrySet, MaxSystemsLen) \/ mps_return
SpecMpsSystems == InitMps /\ [][NextMpsSystems]_vars

\* a buildingServiceSystemType entry: the first segment of its key after the
\* family prefix is buildingServiceSystemType
IsSystemTypeEntry(e) == mps_parts(e.k)[1] = <<"buildingServiceSystemType">>
\* a top-level note entry
IsSystemNoteEntry(e) == mps_parts(e.k) = << <<"note">> >>

MarkerPositions == {i \in 1..Len(entries) : IsSystemTypeEntry(entries[i])}
\* a note was read before the first marker
LeadingNote ==
    \E i \in 1..Len(entries) :
        /\ IsSystemNoteEntry(entries[i])
        /\ \A m \in MarkerPositions : i < m

\* the system records the stream read so far has started, the open one
\* included: one without type for a leading note, then one per marker
RECURSIVE MarkerTypes(_)
MarkerTypes(es) ==
    IF es = <<>> THEN <<>>
    ELSE IF IsSystemTypeEntry(Head(es))
         THEN <<[hasType |-> TRUE, type |-> normalize_value(Head(es).v)]>>
                  \o MarkerTypes(Tail(es))
         ELSE MarkerTypes(Tail(es))
SystemsStarted ==
    (IF LeadingNote THEN <<[hasType |-> FALSE, type |-> VNull]>> ELSE <<>>)
        \o MarkerTypes(entries)

SameType(sys, t) == sys.hasType = t.hasType /\ sys.type = t.type

\* C3 (as the code has it): a record is appended only when a marker is
\* processed or the stream ends; the output holds one record per marker, in
\* order, with the marker's normalized value, after one record without
\* buildingServiceSystemType when a top-level note precedes the first marker.
C3_SystemsPerMarker ==
    LET st == SystemsStarted
    IN  /\ pc = "mps" =>
            /\ Len(systems) = (IF st = <<>> THEN 0 ELSE Len(st) - 1)
            /\ current_system.some = (st # <<>>)
            /\ st # <<>> => SameType(current_system, st[Len(st)])
        /\ pc = "mps_done" => Len(systems) = Len(st)
        /\ pc \in {"mps", "mps_done"} =>
            \A j \in 1..Len(systems) : SameType(systems[j], st[j])

\* C3 witness: a finished stream with a leading note and two markers
C3_Witness ==
    /\ pc = "mps_done"
    /\ LeadingNote
    /\ Cardinality(MarkerPositions) = 2
    /\ Len(systems) = 3
    /\ ~systems[1].hasType /\ systems[1].hasNote
    /\ systems[2].type # systems[3].type

\* C3 as claimed: exactly one record per marker, none without the field
C3_AsClaimed ==
    pc = "mps_done" =>
        /\ Len(systems) = Cardinality(MarkerPositions)
        /\ \A j \in 1..Len(systems) : systems[j].hasType

(* Specification for the recommendation groups of one system: the marker has
   been read, then categories and system elements follow in any order *)

MaxGroupsLen == 5

GroupsEntrySet ==
    { Category(<<"C">>), Category(<<"D">>), Category(<<>>), Category(<<"null">>),
      Category(<<" ">>), Category(<<"1">>), Category(<<"TRUE">>),
      Element("name", <<"E", "1">>), Element("name", <<"E", "2">>),
      Element("description", <<"d">>) }

InitMpsGroups ==
    /\ pc = "mps"
    /\ entries = << SysType(<<"H">>) >>
    /\ idx = 2
    /\ MpsStartIn(mps_entry(MpsInitState, SysType(<<"H">>)))
    /\ SplitVarsInit /\ BoundaryVarsInit /\ MpdVarsInit
    /\ OtherVarsInit /\ TransformVarsInit /\ NormalizeVarsInit /\ ConvertVarsInit

NextMpsGroups == mps_step(GroupsEntrySet, MaxGroupsLen) \/ mps_return
SpecMpsGroups == InitMpsGroups /\ [][NextMpsGroups]_vars

\* What the entries after the marker say, read off the stream by position
RecKind(e) ==
    LET p == mps_parts(e.k)
    IN  IF Len(p) = 2 /\ p = << <<"recommendedModernisations">>, <<"modernisationCategory">> >>
        THEN "cat"
        ELSE IF Len(p) = 3 /\ p[1] = <<"recommendedModernisations">>
                /\ p[2] = <<"systemElements">>
                /\ p[3] \in { <<"name">>, <<"description">>, <<"isExcellentLevel">> }
        THEN p[3][1]
        ELSE "none"

Max(S) == CHOOSE x \in S : \A y \in S : y <= x
Min(S) == CHOOSE x \in S : \A y \in S : x <= y

\* position of the last category entry before i (0: none)
LastCatBefore(seg, i) ==
    Max({0} \cup {j \in 1..(i - 1) : RecKind(seg[j]) = "cat"})
\* an element is opened at i: by a name, or by another element field when no
\* element is open (none since the last category entry or the segment's start)
Opens(seg, i) ==
    \/ RecKind(seg[i]) = "name"
    \/ /\ RecKind(seg[i]) \in {"description", "isExcellentLevel"}
       /\ \A j \in (LastCatBefore(seg, i) + 1)..(i - 1) : RecKind(seg[j]) = "none"
\* the element opened at i, with the fields set until it is closed by the
\* next name or category entry
ElementOpenedAt(seg, i) ==
    LET close == Min({Len(seg) + 1}
                     \cup {j \in (i + 1)..Len(seg) : RecKind(seg[j]) \in {"cat", "name"}})
        At(kind) == {j \in i..(close - 1) : RecKind(seg[j]) = kind}
        Last(kind) == IF At(kind) = {} THEN VNull
                      ELSE normalize_value(seg[Max(At(kind))].v)
    IN  [some |-> TRUE,
         hasName |-> At("name") # {},        name |-> Last("name"),
         hasDesc |-> At("description") # {}, desc |-> Last("description"),
         hasExc  |-> At("isExcellentLevel") # {}, exc |-> Last("isExcellentLevel")]

CatlessKey == [catless |-> TRUE, cat |-> VNull]
\* the grouping key of a category value: empty string and null are the
\* category-less key
KeyOfCategory(v) ==
    IF v = VNull \/ v = VStr(<<>>) THEN CatlessKey ELSE [catless |-> FALSE, cat |-> v]
\* as claimed: blank strings too
KeyOfCategoryBlank(v) ==
    IF v = VNull \/ (v.t = "str" /\ strip(v.s) = <<>>) THEN CatlessKey
    ELSE [catless |-> FALSE, cat |-> v]
\* two keys are the same category: Python's equality of dictionary keys
SameKey(a, b) == a.catless = b.catless /\ (a.catless \/ PyEq(a.cat, b.cat))

\* the key current at position i
KeyAt(seg, i, KeyOf(_)) ==
    IF LastCatBefore(seg, i) = 0 THEN CatlessKey
    ELSE KeyOf(normalize_value(seg[LastCatBefore(seg, i)].v))

\* first occurrences of a sequence of keys
RECURSIVE FirstOccurrences(_)
FirstOccurrences(ks) ==
    IF ks = <<>> THEN <<>>
    ELSE LET rest == FirstOccurrences(SubSeq(ks, 1, Len(ks) - 1))
             k    == ks[Len(ks)]
         IN  IF \E j \in 1..Len(rest) : SameKey(rest[j], k) THEN rest
             ELSE Append(rest, k)

\* the groups the segment describes: one per category in order of first
\* selection (the category-less group first when an element is opened before
\* any category entry), each with the elements opened under it, in order
GroupsDescribed(seg, KeyOf(_)) ==
    LET IsCat(e)  == RecKind(e) = "cat"
        cats      == SelectSeq(seg, IsCat)
        early     == \E i \in 1..Len(seg) : Opens(seg, i) /\ LastCatBefore(seg, i) = 0
        selected  == (IF early THEN <<CatlessKey>> ELSE <<>>)
                       \o [j \in 1..Len(cats) |-> KeyOf(normalize_value(cats[j].v))]
        keys      == FirstOccurrences(selected)
        positions == [i \in 1..Len(seg) |-> i]
    IN  [g \in 1..Len(keys) |->
            LET Mine(i) == Opens(seg, i) /\ SameKey(KeyAt(seg, i, KeyOf), keys[g])
                mine    == SelectSeq(positions, Mine)
            IN  [catless |-> keys[g].catless,
                 cat     |-> keys[g].cat,
                 elems   |-> [m \in 1..Len(mine) |-> ElementOpenedAt(seg, mine[m])]]]

GroupsSegment == SubSeq(entries, 2, Len(entries))

\* C2 (as the code has it): the finished system lists one group per category,
\* categories compared as dictionary keys, only the empty string and null
\* sharing the category-less group; groups are in order of first selection,
\* a category seen again reuses its group, and every element is in the group
\* that was current when it was opened.
C2_GroupsByCategory ==
    pc = "mps_done" =>
        LET want == GroupsDescribed(GroupsSegment, KeyOfCategory)
        IN  /\ Len(systems) = 1
            /\ systems[1].hasRec = (want # <<>>)
            /\ systems[1].rec = want

\* C2 witness: Cat1, E1, Cat2, E2 gave Cat1 -> [E1], Cat2 -> [E2]
C2_Witness ==
    /\ pc = "mps_done"
    /\ GroupsSegment = << Category(<<"C">>), Element("name", <<"E", "1">>),
                          Category(<<"D">>), Element("name", <<"E", "2">>) >>
    /\ Len(systems[1].rec) = 2
    /\ systems[1].rec[1].cat = VStr(<<"C">>)
    /\ Len(systems[1].rec[1].elems) = 1
    /\ systems[1].rec[1].elems[1].name = VStr(<<"E", "1">>)
    /\ systems[1].rec[2].cat = VStr(<<"D">>)
    /\ Len(systems[1].rec[2].elems) = 1
    /\ systems[1].rec[2].elems[1].name = VStr(<<"E", "2">>)

\* C2 as claimed: blank categories share the category-less group as well
C2_AsClaimed ==
    pc = "mps_done" =>
        systems[1].rec = GroupsDescribed(GroupsSegment, KeyOfCategoryBlank)

(* Specification for actualEnergeticQuality: markers, notes and
   actualEnergeticQuality keys of one, two and three segments *)

MaxActualLen == 4

ActualEntrySet ==
    { SysType(<<"H">>), SysNote(<<"n">>),
      ActualQ("quality", <<>>), ActualQ("quality", <<"A">>),
      ActualQ("quality", <<"null">>), ActualQ("note", <<"an">>),
      Entry(SKey(<<"actualEnergeticQuality">>), VStr(<<"z">>)),
      Entry(SKey(<<"actualEnergeticQuality", "_", "_", "quality", "_", "_", "x">>),
            VStr(<<>>)) }

NextMpsActual == mps_step(ActualEntrySet, MaxActualLen) \/ mps_return
SpecMpsActual == InitMps /\ [][NextMpsActual]_vars

\* the part of the stream that belongs to output record j: the entries before
\* the first marker for the record a leading note opens, else the entries
\* between the record's marker and the next one
RecordSegment(j) ==
    LET k     == IF LeadingNote THEN j - 1 ELSE j      \* the record's marker, by rank
        Rank(m) == Cardinality({x \in MarkerPositions : x <= m})
        start == IF k = 0 THEN 0 ELSE CHOOSE m \in MarkerPositions : Rank(m) = k
        stop  == Min({Len(entries) + 1} \cup {m \in MarkerPositions : m > start})
    IN  SubSeq(entries, start + 1, stop - 1)

\* a two-segment actualEnergeticQuality entry
IsActualEntry(e) ==
    Len(mps_parts(e.k)) = 2 /\ mps_parts(e.k)[1] = <<"actualEnergeticQuality">>

\* the accumulated object of a segment: each field named by such an entry, in
\* order of first mention, with the value of its last mention
RECURSIVE ActualAccumulated(_)
ActualAccumulated(es) ==
    IF es = <<>> THEN <<>>
    ELSE LET rest == ActualAccumulated(SubSeq(es, 1, Len(es) - 1))
             f    == mps_parts(es[Len(es)].k)[2]
             v    == normalize_value(es[Len(es)].v)
         IN  IF \E j \in 1..Len(rest) : rest[j].f = f
             THEN [j \in 1..Len(rest) |->
                      IF rest[j].f = f THEN [f |-> f, v |-> v] ELSE rest[j]]
             ELSE Append(rest, [f |-> f, v |-> v])

\* C8: a finalized system has actualEnergeticQuality only if a two-segment
\* actualEnergeticQuality entry was read for it; it is null exactly when the
\* accumulated quality field is the empty string, and otherwise the
\* accumulated object, which is never empty.
C8_ActualQuality ==
    pc = "mps_done" =>
        \A j \in 1..Len(systems) :
            LET acc  == ActualAccumulated(SelectSeq(RecordSegment(j), IsActualEntry))
                qEmpty == \E k \in 1..Len(acc) :
                              acc[k].f = <<"quality">> /\ acc[k].v = VStr(<<>>)
            IN  /\ systems[j].hasActual = (acc # <<>>)
                /\ systems[j].hasActual => systems[j].actualNull = qEmpty
                /\ (systems[j].hasActual /\ ~systems[j].actualNull) =>
                       systems[j].actual = acc /\ systems[j].actual # <<>>

\* C8 witness: one system whose quality was the empty string (null attached),
\* one with a quality and a note (the object attached)
C8_Witness ==
    /\ pc = "mps_done"
    /\ Len(systems) = 2
    /\ systems[1].hasActual /\ systems[1].actualNull
    /\ systems[2].hasActual /\ ~systems[2].actualNull
    /\ systems[2].actual = << [f |-> <<"quality">>, v |-> VStr(<<"A">>)] >>

-----------------------------------------------------------------------------
(* process_other.  The nested result is a function from paths to nodes: the
   root dictionary is at <<>>, the value under key k of the dictionary at
   path p is at Append(p, k).  A node is a dictionary, a list of scalars or a
   scalar; assigning a key replaces the whole subtree under it. *)

DictNode      == [kind |-> "dict",   sv |-> VNull, lv |-> <<>>]
ListNode(lv)  == [kind |-> "list",   sv |-> VNull, lv |-> lv]
ScalarNode(v) == [kind |-> "scalar", sv |-> v,     lv |-> <<>>]

IsStrictPrefix(p, q) == Len(p) < Len(q) /\ SubSeq(q, 1, Len(p)) = p

\* key in current, for the dictionary at the parent path
HasKey(doc, p) == p \in DOMAIN doc
\* current[key] = node: whatever was under the key is replaced
SetNode(doc, p, node) ==
    [q \in {x \in DOMAIN doc : ~IsStrictPrefix(p, x)} \cup {p} |->
        IF q = p THEN node ELSE doc[q]]

AltEnergyPrefix ==
    <<"usingAlternativeEnergy", "_", "_", "alternativeEnergies", "_", "_">>

\* re.match(r"(.+)_\d+$", key): the position of the underscore that ends the
\* base (0: no match)
ArraySuffixAt(key) ==
    LET Hit(u) == /\ key[u] = "_"
                  /\ \A j \in (u + 1)..Len(key) : IsDigit(key[j])
    IN  IF \E u \in 2..(Len(key) - 1) : Hit(u)
        THEN CHOOSE u \in 2..(Len(key) - 1) : Hit(u)
        ELSE 0

\* lines 322-329 with the test of line 325 dropped: the array is always reset
other_set_last_reset(doc, parent, key, value) ==
    LET u == ArraySuffixAt(key)
    IN  IF u # 0
        THEN SetNode(doc, Append(parent, SubSeq(key, 1, u - 1)), ListNode(<<value>>))
        ELSE SetNode(doc, Append(parent, key), ScalarNode(value))

\* lines 322-329 where a value never replaces a mapping already under the key
other_set_last_keepmapping(doc, parent, key, value) ==
    LET u == ArraySuffixAt(key)
    IN  IF u # 0
        THEN LET p  == Append(parent, SubSeq(key, 1, u - 1))
                 d1 == IF ~HasKey(doc, p) \/ doc[p].kind # "list"
                       THEN SetNode(doc, p, ListNode(<<>>))
                       ELSE doc
             IN  [d1 EXCEPT ![p].lv = Append(@, value)]
        ELSE IF HasKey(doc, Append(parent, key)) /\ doc[Append(parent, key)].kind = "dict"
             THEN doc
             ELSE SetNode(doc, Append(parent, key), ScalarNode(value))

\* lines 322-329: the last segment
other_set_last(doc, parent, key, value) ==
    LET u == ArraySuffixAt(key)
    IN  IF u # 0
        THEN LET p  == Append(parent, SubSeq(key, 1, u - 1))
                 d1 == IF ~HasKey(doc, p) \/ doc[p].kind # "list"
                       THEN SetNode(doc, p, ListNode(<<>>))
                       ELSE doc
             IN  [d1 EXCEPT ![p].lv = Append(@, value)]
        ELSE SetNode(doc, Append(parent, key), ScalarNode(value))

\* lines 317-333: the walk along the segments of one key
RECURSIVE other_walk(_, _, _, _)
other_walk(doc, current, keys, value) ==
    IF Len(keys) = 1 THEN other_set_last(doc, current, keys[1], value)
    ELSE LET p  == Append(current, keys[1])
             d1 == IF ~HasKey(doc, p) \/ doc[p].kind # "dict"
                   THEN SetNode(doc, p, DictNode)
                   ELSE doc
         IN  other_walk(d1, p, Tail(keys), value)

OtherState(res, alt) == [result |-> res, alternative_energies |-> alt]
OtherInitState == OtherState(EmptyDict, <<>>)

\* the loop body, lines 299-333
other_entry(S, e) ==
    LET value == normalize_value(e.v)
    IN  IF startswith(e.k, AltEnergyPrefix)
        THEN IF IsTrue(value)
             THEN [S EXCEPT !.alternative_energies =
                                Append(@, LET ks == split(e.k) IN ks[Len(ks)])]
             ELSE S
        ELSE IF IsEmptyOrNone(value) THEN S
             ELSE [S EXCEPT !.result = other_walk(@, <<>>, split(e.k), value)]

UAPath == << <<"usingAlternativeEnergy">> >>
AEPath == << <<"usingAlternativeEnergy">>, <<"alternativeEnergies">> >>

\* lines 336-338 raise TypeError: the names are to be attached and
\* usingAlternativeEnergy holds something that is not a dictionary
other_attach_raises(S) ==
    /\ S.alternative_energies # <<>>
    /\ HasKey(S.result, UAPath)
    /\ S.result[UAPath].kind # "dict"

\* lines 336-340, when they do not raise
other_attach(S) ==
    IF S.alternative_energies = <<>> THEN S.result
    ELSE LET d1 == IF HasKey(S.result, UAPath) THEN S.result
                   ELSE SetNode(S.result, UAPath, DictNode)
             names == [j \in 1..Len(S.alternative_energies) |->
                          VStr(S.alternative_energies[j])]
         IN  SetNode(d1, AEPath, ListNode(names))

RECURSIVE other_loop(_, _)
other_loop(S, es) ==
    IF es = <<>> THEN S ELSE other_loop(other_entry(S, Head(es)), Tail(es))

\* the outcome of the call: the result returned, or the error raised
process_other(es) ==
    LET S == other_loop(OtherInitState, es)
    IN  IF other_attach_raises(S) THEN [ok |-> FALSE, doc |-> EmptyDict]
        ELSE [ok |-> TRUE, doc |-> other_attach(S)]

(* Specifications of process_other.  As for process_mps the argument list is
   supplied one entry at a time; other_return is the end of the list. *)

OtherLocals == OtherState(result, alternative_energies)

other_step(EntrySet, MaxLen) ==
    /\ pc = "other"
    /\ Len(entries) < MaxLen
    /\ \E e \in EntrySet :
          /\ entries' = Append(entries, e)
          /\ result' = other_entry(OtherLocals, e).result
          /\ alternative_energies' = other_entry(OtherLocals, e).alternative_energies
    /\ idx' = idx + 1
    /\ UNCHANGED <<pc, splitVars, boundaryVars, mpdVars, mpsVars, transformVars,
                   normalizeVars, convertVars>>

other_return ==
    /\ pc = "other"
    /\ IF other_attach_raises(OtherLocals)
       THEN pc' = "other_error" /\ result' = result
       ELSE pc' = "other_done" /\ result' = other_attach(OtherLocals)
    /\ UNCHANGED <<entries, idx, alternative_energies, splitVars, boundaryVars,
                   mpdVars, mpsVars, transformVars,
                   normalizeVars, convertVars>>

InitOther ==
    /\ pc = "other"
    /\ entries = <<>>
    /\ idx = 1
    /\ SplitVarsInit /\ BoundaryVarsInit /\ MpdVarsInit /\ MpsVarsInit
    /\ OtherVarsInit /\ TransformVarsInit /\ NormalizeVarsInit /\ ConvertVarsInit

\* a key from its segments
RECURSIVE KeyOf(_)
KeyOf(segs) ==
    IF Len(segs) = 1 THEN segs[1] ELSE segs[1] \o <<"_", "_">> \o KeyOf(Tail(segs))
OEntry(segs, v) == Entry(KeyOf(segs), VStr(v))

(* Specification for the numeric-suffix arrays *)

MaxArraysLen == 4

ArraysEntrySet ==
    { OEntry(<< <<"a">>, <<"b">> >>, <<"1">>),
      OEntry(<< <<"a">>, <<"c", "_", "0">> >>, <<"x">>),
      OEntry(<< <<"a">>, <<"c", "_", "1">> >>, <<"y">>),
      OEntry(<< <<"a">>, <<"c", "_", "1">> >>, <<>>),
      OEntry(<< <<"a">>, <<"c">> >>, <<"s">>),
      OEntry(<< <<"a">>, <<"c", "_", "x">> >>, <<"z">>),
      OEntry(<< <<"a">>, <<"c", "_", "1", "_", "2", "0">> >>, <<"v">>),
      OEntry(<< <<"a">>, <<"_", "1">> >>, <<"w">>),
      OEntry(<< <<"a">> >>, <<"null">>),
      OEntry(<< <<"a">> >>, <<"t">>) }

NextOtherArrays == other_step(ArraysEntrySet, MaxArraysLen) \/ other_return
SpecOtherArrays == InitOther /\ [][NextOtherArrays]_vars

\* a segment of the form <base>_<digits>, and its base
IsArraySegment(seg) ==
    \E u \in 2..(Len(seg) - 1) :
        seg[u] = "_" /\ AllDigits(SubSeq(seg, u + 1, Len(seg)))
ArrayBase(seg) ==
    SubSeq(seg, 1, (CHOOSE u \in 2..(Len(seg) - 1) :
                       seg[u] = "_" /\ AllDigits(SubSeq(seg, u + 1, Len(seg)))) - 1)

\* C6: each non-skipped entry whose last segment is <base>_<digits> appends its
\* value to the array under <base> at its path (an empty array first if
\* <base> is absent or not an array); any other last segment sets the field
\* to the value; a skipped entry changes nothing.
C6_ArrayAppend ==
    [][ (pc = "other" /\ entries' # entries) =>
          LET e      == entries'[Len(entries')]
              value  == normalize_value(e.v)
              segs   == split(e.k)
              parent == SubSeq(segs, 1, Len(segs) - 1)
              last   == segs[Len(segs)]
          IN  IF value = VNull \/ value = VStr(<<>>)
              THEN result' = result
              ELSE IF IsArraySegment(last)
              THEN LET p   == Append(parent, ArrayBase(last))
                       old == IF p \in DOMAIN result /\ result[p].kind = "list"
                              THEN result[p].lv ELSE <<>>
                   IN  p \in DOMAIN result' /\ result'[p] = ListNode(Append(old, value))
              ELSE LET p == Append(parent, last)
                   IN  p \in DOMAIN result' /\ result'[p] = ScalarNode(value)
      ]_vars

\* C6 witness: a__b=1, a__c_0=x, a__c_1=y gave {a: {b: 1, c: [x, y]}}
C6_Witness ==
    /\ pc = "other_done"
    /\ entries = << OEntry(<< <<"a">>, <<"b">> >>, <<"1">>),
                    OEntry(<< <<"a">>, <<"c", "_", "0">> >>, <<"x">>),
                    OEntry(<< <<"a">>, <<"c", "_", "1">> >>, <<"y">>) >>
    /\ DOMAIN result = { <<>>, << <<"a">> >>, << <<"a">>, <<"b">> >>, << <<"a">>, <<"c">> >> }
    /\ result[<< <<"a">> >>] = DictNode
    /\ result[<< <<"a">>, <<"b">> >>] = ScalarNode(VInt(1))
    /\ result[<< <<"a">>, <<"c">> >>] = ListNode(<< VStr(<<"x">>), VStr(<<"y">>) >>)

(* Specification for the alternative-energies namespace *)

MaxEnergiesLen == 4

UAEntry(name, v) ==
    OEntry(<< <<"usingAlternativeEnergy">>, <<"alternativeEnergies">>, <<name>> >>, v)
EnergiesEntrySet ==
    { UAEntry("HeatPump", <<"TRUE">>), UAEntry("Solar", <<"FALSE">>),
      UAEntry("Wind", <<"TRUE">>), UAEntry("Geo", <<"1">>),
      OEntry(<< <<"usingAlternativeEnergy">> >>, <<"5">>),
      OEntry(<< <<"usingAlternativeEnergy">>, <<"enabled">> >>, <<"TRUE">>),
      OEntry(<< <<"usingAlternativeEnergy", "_", "0">> >>, <<"x">>),
      OEntry(<< <<"usingAlternativeEnergy">>, <<"alternativeEnergies">> >>, <<"s">>),
      OEntry(<< <<"b">> >>, <<"1">>) }

NextOtherEnergies == other_step(EnergiesEntrySet, MaxEnergiesLen) \/ other_return
SpecOtherEnergies == InitOther /\ [][NextOtherEnergies]_vars

\* an entry under the namespace whose normalized value is boolean true
IsEnabledEnergy(e) ==
    /\ Len(e.k) >= Len(AltEnergyPrefix)
    /\ SubSeq(e.k, 1, Len(AltEnergyPrefix)) = AltEnergyPrefix
    /\ normalize_value(e.v) = VBool(TRUE)
EnabledEnergyNames ==
    LET on == SelectSeq(entries, IsEnabledEnergy)
    IN  [j \in 1..Len(on) |-> VStr(split(on[j].k)[Len(split(on[j].k))])]

\* C7: whenever an entry under the namespace is true, process_other completes
\* and usingAlternativeEnergy.alternativeEnergies is the list of the final
\* segments of the true-valued entries, in input order, whatever other keys
\* the stream holds.
C7_EnergiesAttached ==
    (pc \in {"other_done", "other_error"} /\ EnabledEnergyNames # <<>>) =>
        /\ pc = "other_done"
        /\ AEPath \in DOMAIN result
        /\ result[AEPath] = ListNode(EnabledEnergyNames)

\* what does hold: the same, unless usingAlternativeEnergy holds a scalar or
\* an array when the names are attached, in which case the call raises
C7_EnergiesAttachedOrRaises ==
    (pc \in {"other_done", "other_error"} /\ EnabledEnergyNames # <<>>) =>
        IF UAPath \in DOMAIN result /\ result[UAPath].kind # "dict"
        THEN pc = "other_error"
        ELSE /\ pc = "other_done"
             /\ AEPath \in DOMAIN result
             /\ result[AEPath] = ListNode(EnabledEnergyNames)

-----------------------------------------------------------------------------
(* transform_json *)

\* base64.b64encode(bytes).decode("ascii"); a byte is a number 0..255
Base64Chars ==
    << "A", "B", "C", "D", "E", "F", "G", "H", "I", "J", "K", "L", "M", "N", "O", "P",
       "Q", "R", "S", "T", "U", "V", "W", "X", "Y", "Z", "a", "b", "c", "d", "e", "f",
       "g", "h", "i", "j", "k", "l", "m", "n", "o", "p", "q", "r", "s", "t", "u", "v",
       "w", "x", "y", "z", "0", "1", "2", "3", "4", "5", "6", "7", "8", "9", "+", "/" >>
B64(n) == Base64Chars[n + 1]
RECURSIVE b64encode(_)
b64encode(bs) ==
    IF bs = <<>> THEN <<>>
    ELSE IF Len(bs) = 1
    THEN << B64(bs[1] \div 4), B64((bs[1] % 4) * 16), "=", "=" >>
    ELSE IF Len(bs) = 2
    THEN << B64(bs[1] \div 4), B64((bs[1] % 4) * 16 + bs[2] \div 16),
            B64((bs[2] % 16) * 4), "=" >>
    ELSE << B64(bs[1] \div 4), B64((bs[1] % 4) * 16 + bs[2] \div 16),
            B64((bs[2] % 16) * 4 + bs[3] \div 64), B64(bs[3] % 64) >>
             \o b64encode(SubSeq(bs, 4, Len(bs)))

\* datetime.strptime(text, "%m/%d/%y"): the month is 1[0-2]|0[1-9]|[1-9], the
\* day 3[01]|[12]\d|0[1-9]|[1-9]| [1-9], the year \d\d, with nothing left
\* over; then the day must exist in the month of the year 2000+yy (yy <= 68)
\* or 1900+yy
SlashPositions(s) == {k \in 1..Len(s) : s[k] = "/"}
IsMonthText(s) ==
    /\ Len(s) \in {1, 2} /\ AllDigits(s)
    /\ DigitsVal(s) \in 1..12
IsDayText(s) ==
    \/ /\ Len(s) \in {1, 2} /\ AllDigits(s)
       /\ DigitsVal(s) \in 1..31
    \/ /\ Len(s) = 2 /\ s[1] = " " /\ IsDigit(s[2]) /\ s[2] # "0"
IsYearText(s) == Len(s) = 2 /\ AllDigits(s)
FullYear(yy) == IF yy <= 68 THEN 2000 + yy ELSE 1900 + yy
IsLeap(year) == year % 4 = 0 /\ (year % 100 # 0 \/ year % 400 = 0)
DaysInMonth(m, year) ==
    IF m = 2 THEN (IF IsLeap(year) THEN 29 ELSE 28)
    ELSE IF m \in {4, 6, 9, 11} THEN 30 ELSE 31

NoDate == [ok |-> FALSE, m |-> 0, d |-> 0, y |-> 0]
strptime(s) ==
    IF Cardinality(SlashPositions(s)) # 2 THEN NoDate
    ELSE LET a  == Min(SlashPositions(s))
             b  == Max(SlashPositions(s))
             mt == SubSeq(s, 1, a - 1)
             dt == SubSeq(s, a + 1, b - 1)
             yt == SubSeq(s, b + 1, Len(s))
         IN  IF ~(IsMonthText(mt) /\ IsDayText(dt) /\ IsYearText(yt)) THEN NoDate
             ELSE LET m == DigitsVal(mt)
                      d == DigitsVal(IF dt[1] = " " THEN Tail(dt) ELSE dt)
                      y == FullYear(DigitsVal(yt))
                  IN  IF d > DaysInMonth(m, y) THEN NoDate
                      ELSE [ok |-> TRUE, m |-> m, d |-> d, y |-> y]

Pad2(n) == IF n < 10 THEN <<"0">> \o NatStr(n) ELSE NatStr(n)

\* strftime("%y.%m.%d.") with month and day exchanged
strftime_daymonth(dt) ==
    Pad2(dt.y % 100) \o <<".">> \o Pad2(dt.d) \o <<".">> \o Pad2(dt.m) \o <<".">>

\* strftime("%y.%m.%d.")
strftime(dt) ==
    Pad2(dt.y % 100) \o <<".">> \o Pad2(dt.m) \o <<".">> \o Pad2(dt.d) \o <<".">>

\* str() of what a key holds; for a dictionary or a list it is Python's
\* display of the container, which no input of the model produces
NodeStr(node) ==
    IF node.kind = "scalar" THEN str(node.sv)
    ELSE IF node.kind = "dict" THEN <<"{", "}">> ELSE <<"[", "]">>

AddressFields ==
    << <<"houseNumber">>, <<"building">>, <<"floor">>, <<"doorNumber">>, <<"staircase">> >>
\* the paths of lines 379-415, in order
StrPaths ==
    [k \in 1..5 |-> << <<"buildingData">>, <<"buildingAddress">>, AddressFields[k] >>]
      \o << << <<"buildingData">>, <<"topographicalNumber">> >> >>
      \o [k \in 1..5 |-> << <<"certifierDetails">>, <<"address">>, AddressFields[k] >>]
      \o << << <<"certifierDetails">>, <<"topographicalNumber">> >> >>
PhonePath == << <<"certifierDetails">>, <<"phoneNumber">> >>
DatePath  == << <<"validity">>, <<"siteInspectionDate">> >>

Failed == [ok |-> FALSE, doc |-> EmptyDict]

\* result[a][b][c] = prefix + str(result[a][b][c]) with a missing key left alone,
\* as "if key in ..." would
coerce_str_lenient(doc, p, prefix) ==
    IF ~HasKey(doc, p) THEN [ok |-> TRUE, doc |-> doc]
    ELSE [ok |-> TRUE, doc |-> SetNode(doc, p, ScalarNode(VStr(prefix \o NodeStr(doc[p]))))]

\* result[a][b][c] = prefix + str(result[a][b][c]); the lookup raises KeyError or
\* TypeError unless every key on the path exists
coerce_str(doc, p, prefix) ==
    IF ~HasKey(doc, p) THEN Failed
    ELSE [ok |-> TRUE, doc |-> SetNode(doc, p, ScalarNode(VStr(prefix \o NodeStr(doc[p]))))]

\* lines 379-415
RECURSIVE coerce_all(_, _)
coerce_all(doc, paths) ==
    IF paths = <<>> THEN [ok |-> TRUE, doc |-> doc]
    ELSE LET r == coerce_str(doc, Head(paths), <<>>)
         IN  IF r.ok THEN coerce_all(r.doc, Tail(paths)) ELSE Failed

\* line 420; strptime raises TypeError for a value that is not a string
reformat_date(doc) ==
    IF ~HasKey(doc, DatePath) THEN Failed
    ELSE LET node == doc[DatePath]
         IN  IF node.kind # "scalar" \/ ~IsStr(node.sv) THEN Failed
             ELSE LET dt == strptime(node.sv.s)
                  IN  IF ~dt.ok THEN Failed
                      ELSE [ok |-> TRUE,
                            doc |-> SetNode(doc, DatePath, ScalarNode(VStr(strftime(dt))))]

\* the node of a top-level key that holds one of the three record lists, the
\* PDF text or the photos; the content is in the document record
SectionNode(name) == [kind |-> name, sv |-> VNull, lv |-> <<>>]

\* lines 369-376
attach_sections(doc, bp, mp, sy) ==
    LET d1 == IF Len(bp) > 0
              THEN SetNode(doc, << <<"boundaryAndOpeningStructures">> >>,
                           SectionNode("boundary"))
              ELSE doc
        d2 == IF Len(mp) > 0
              THEN SetNode(d1, << <<"modernisationProposalDetails">> >>, SectionNode("mpd"))
              ELSE d1
    IN  IF Len(sy) > 0
        THEN SetNode(d2, << <<"modernisationProposalsOfBuildingServicesSystems">> >>,
                     SectionNode("mps"))
        ELSE d2

\* lines 427-441
Photos(imgs) ==
    [j \in 1..Len(imgs) |->
        [category |-> imgs[j].category, note |-> imgs[j].note,
         content |-> b64encode(imgs[j].content)]]

Raised == [NoDocument EXCEPT !.status = "error"]

\* lines 416-418, reached only if lines 379-415 did not raise
coerce_phone(c) ==
    IF ~c.ok THEN Failed ELSE coerce_str(c.doc, PhonePath, <<"+">>)

\* line 420, reached only if lines 379-418 did not raise
date_line(c) ==
    IF ~c.ok THEN Failed ELSE reformat_date(c.doc)

\* lines 379-420 on the document with its sections attached
coerce_document(doc) == date_line(coerce_phone(coerce_all(doc, StrPaths)))

\* lines 423-445: the PDF and the photos are added and the document returned,
\* unless an earlier line raised
transform_finish(c, bp, mp, sy, pdf, imgs) ==
    IF ~c.ok THEN Raised
    ELSE [status |-> "returned",
          doc |-> SetNode(SetNode(c.doc, << <<"calculationsPdfFileContent">> >>,
                                  SectionNode("pdf")),
                          << <<"photos">> >>, SectionNode("photos")),
          boundary |-> bp,
          mpd |-> mp,
          mps |-> sy,
          pdf |-> b64encode(pdf),
          photos |-> Photos(imgs)]

\* lines 369-445, from the four processed sections
transform_assemble(bp, mp, sy, po, pdf, imgs) ==
    IF ~po.ok THEN Raised
    ELSE transform_finish(coerce_document(attach_sections(po.doc, bp, mp, sy)),
                          bp, mp, sy, pdf, imgs)

\* lines 363-367
transform_process(sp, pdf, imgs) ==
    transform_assemble(process_boundary(sp.boundary), process_mpd(sp.mpd),
                       process_mps(sp.mps), process_other(sp.other), pdf, imgs)

transform_json(es, pdf, imgs) == transform_process(split_entries(es), pdf, imgs)

(* Specification of transform_json: one call on one input.  An input is the
   flat record of a complete certificate with one date text and at most one
   defect: a mandatory key left out, left blank or null, or a scalar written
   over a whole section. *)

MaxMonth == 13
MaxDay   == 32

MandatoryKeys == StrPaths \o <<PhonePath, DatePath>>
MandatoryValues ==
    << <<"1", "2">>, <<"A">>, <<"2", ".", "5">>, <<" ", "7">>, <<"TRUE">>, <<"0", "4", "2">>,
       <<"3">>, <<"B">>, <<"0">>, <<"x">>, <<"-", "1">>, <<"7", "7">>,
       <<"3", "6", "3", "0">> >>
Sections == << <<"buildingData">>, <<"certifierDetails">>, <<"validity">> >>

\* the other three families, so that their sections are attached too
ExtraEntries ==
    BoundaryWindow(<<"T">>, <<"good">>)
      \o << SysType(<<"H">>),
            OEntry(<< <<"usingAlternativeEnergy">>, <<"alternativeEnergies">>,
                      <<"HeatPump">> >>, <<"TRUE">>) >>

Defects ==
    {[kind |-> "none", k |-> 0]}
      \cup {[kind |-> c, k |-> k] : c \in {"drop", "blank", "null"},
                                    k \in 1..Len(MandatoryKeys)}
      \cup {[kind |-> c, k |-> k] : c \in {"scalar", "early"}, k \in 1..Len(Sections)}

DateNumber(n, padded) == IF padded THEN Pad2(n) ELSE NatStr(n)
DateTexts ==
    { DateNumber(m, pm) \o <<"/">> \o DateNumber(d, pd) \o <<"/">> \o Pad2(y) :
        pm \in BOOLEAN, pd \in BOOLEAN,
        m \in 0..MaxMonth, d \in 0..MaxDay, y \in {0, 25, 68, 69, 99} }
OddDateTexts ==
    { <<"0", "1", "/", "0", "2", "/", "2", "0", "2", "5">>,
      <<"0", "1", "/", "0", "2", "/", "5">>,
      <<"0", "1", "/", " ", "2", "/", "2", "5">>,
      <<" ", "0", "1", "/", "0", "2", "/", "2", "5">>,
      <<"0", "1", "/", "0", "2", "/", "2", "5", " ">>,
      <<"0", "1", "0", "2", "2", "5">>,
      <<"2", "5", ".", "0", "1", ".", "0", "2", ".">>,
      <<"0", "1", "/", "0", "2">>,
      <<"TRUE">> }
DefaultDate == <<"0", "1", "/", "0", "2", "/", "2", "5">>

FlatRecord(defect, date) ==
    LET Value(k) == IF k = Len(MandatoryKeys) THEN date ELSE MandatoryValues[k]
        Field(k) ==
            IF defect.k = k /\ defect.kind = "drop" THEN <<>>
            ELSE IF defect.k = k /\ defect.kind = "blank"
            THEN << OEntry(MandatoryKeys[k], <<" ">>) >>
            ELSE IF defect.k = k /\ defect.kind = "null"
            THEN << OEntry(MandatoryKeys[k], <<"null">>) >>
            ELSE << OEntry(MandatoryKeys[k], Value(k)) >>
        Over == IF defect.kind \in {"scalar", "early"}
                THEN << OEntry(<<Sections[defect.k]>>, <<"x">>) >>
                ELSE <<>>
    IN  (IF defect.kind = "early" THEN Over ELSE <<>>)
          \o Flatten([k \in 1..Len(MandatoryKeys) |-> Field(k)])
          \o ExtraEntries
          \o (IF defect.kind = "scalar" THEN Over ELSE <<>>)

TransformInputs ==
    { FlatRecord(defect, DefaultDate) : defect \in Defects }
      \cup { FlatRecord([kind |-> "none", k |-> 0], date) :
               date \in DateTexts \cup OddDateTexts }
      \cup { <<>> }

ImageSet ==
    { << >>,
      << [content |-> <<255, 216, 255>>, note |-> <<"front">>, category |-> <<"coverPhoto">>],
         [content |-> <<1>>, note |-> <<>>, category |-> <<"other">>] >> }

InitTransform ==
    /\ pc = "transform"
    /\ entries \in TransformInputs
    /\ idx = 1
    /\ pdf_bytes = <<37, 80, 68>>
    /\ images \in ImageSet
    /\ document = NoDocument
    /\ SplitVarsInit /\ BoundaryVarsInit /\ MpdVarsInit /\ MpsVarsInit /\ OtherVarsInit
    /\ NormalizeVarsInit /\ ConvertVarsInit

transform_call ==
    /\ pc = "transform"
    /\ document' = transform_json(entries, pdf_bytes, images)
    /\ pc' = "transform_done"
    /\ UNCHANGED <<entries, idx, pdf_bytes, images, splitVars, boundaryVars, mpdVars,
                   mpsVars, otherVars, normalizeVars, convertVars>>

NextTransform == transform_call
SpecTransform == InitTransform /\ [][NextTransform]_vars

(* Claims about transform_json *)

\* what process_other builds from the "other" entries of the input
Materialized == process_other(split_entries(entries).other)

\* every section and every field that lines 379-420 read is in the materialized document M
MandatoryPresent(M) ==
    /\ M.ok
    /\ \A k \in 1..Len(MandatoryKeys) : HasKey(M.doc, MandatoryKeys[k])

\* the materialized date is a text
HasDateText(M) ==
    /\ M.ok
    /\ HasKey(M.doc, DatePath)
    /\ M.doc[DatePath].kind = "scalar"
    /\ IsStr(M.doc[DatePath].sv)

\* a text month/day/2-digit-year: two slashes, a month and a day of one or two
\* characters, a year of exactly two digits
MatchesFormat(s) ==
    /\ Cardinality({i \in 1..Len(s) : s[i] = "/"}) = 2
    /\ LET a == CHOOSE i \in 1..Len(s) : s[i] = "/" /\ \A j \in 1..(i - 1) : s[j] # "/"
           b == CHOOSE i \in 1..Len(s) : s[i] = "/" /\ \A j \in (i + 1)..Len(s) : s[j] # "/"
       IN  /\ a - 1 \in 1..2
           /\ b - a - 1 \in 1..2
           /\ Len(s) - b = 2
           /\ \A i \in (b + 1)..Len(s) : IsDigit(s[i])

\* C9: transform_json never returns a partial document: when the materialized
\* document lacks a mandatory section or one of the coerced fields, or the
\* site-inspection date does not match month/day/2-digit-year, the call ends in
\* an error and nothing of a document is returned; a call ends either with a
\* returned document or with an error.
C9_NoPartialDocument ==
    pc = "transform_done" =>
        LET M == Materialized
        IN  /\ document.status \in {"returned", "error"}
            /\ (~MandatoryPresent(M) \/ ~HasDateText(M)
                  \/ ~MatchesFormat(M.doc[DatePath].sv.s)) => document.status = "error"
            /\ document.status = "error" => document = Raised

C9_Witness ==
    /\ pc = "transform_done"
    /\ \E k \in 1..Len(MandatoryKeys) :
          /\ \E i \in 1..Len(entries) :
                entries[i] = OEntry(MandatoryKeys[k], <<"null">>)
          /\ ~HasKey(Materialized.doc, MandatoryKeys[k])
    /\ document.status = "error"

\* a date text MM/DD/YY, two digits each, that names a day of the calendar
\* (%y: 69-99 are 1969-1999 and 00-68 are 2000-2068, where every fourth year is leap)
IsValidMMDDYY(s) ==
    /\ Len(s) = 8
    /\ s[3] = "/" /\ s[6] = "/"
    /\ \A i \in {1, 2, 4, 5, 7, 8} : IsDigit(s[i])
    /\ LET mm == 10 * DigitVal(s[1]) + DigitVal(s[2])
           dd == 10 * DigitVal(s[4]) + DigitVal(s[5])
           yy == 10 * DigitVal(s[7]) + DigitVal(s[8])
       IN  /\ mm \in 1..12
           /\ dd >= 1
           /\ dd <= (CASE mm \in {1, 3, 5, 7, 8, 10, 12} -> 31
                       [] mm \in {4, 6, 9, 11} -> 30
                       [] OTHER -> IF yy % 4 = 0 THEN 29 ELSE 28)

SectionsPresent(M) ==
    /\ M.ok
    /\ \A k \in 1..Len(Sections) :
          /\ HasKey(M.doc, <<Sections[k]>>)
          /\ M.doc[<<Sections[k]>>].kind = "dict"

\* C10: when the site-inspection date of the input is a text MM/DD/YY naming a
\* valid date and the mandatory sections are present, the returned document
\* has validity.siteInspectionDate = YY.MM.DD. (each number followed by a
\* dot); with every mandatory field present the call does return.
C10_DateReformatted ==
    pc = "transform_done" =>
        LET M == Materialized
        IN  (SectionsPresent(M) /\ HasDateText(M) /\ IsValidMMDDYY(M.doc[DatePath].sv.s))
            => LET s == M.doc[DatePath].sv.s
               IN  /\ MandatoryPresent(M) => document.status = "returned"
                   /\ document.status = "returned" =>
                         document.doc[DatePath] =
                             ScalarNode(VStr(<< s[7], s[8], ".", s[1], s[2], ".",
                                                s[4], s[5], "." >>))

C10_Witness ==
    /\ pc = "transform_done"
    /\ document.status = "returned"
    /\ document.doc[DatePath] = ScalarNode(VStr(<<"2", "5", ".", "0", "1", ".", "0", "2", ".">>))
    /\ LET M == Materialized
       IN  /\ SectionsPresent(M)
           /\ HasKey(M.doc, DatePath)
           /\ M.doc[DatePath] = ScalarNode(VStr(<<"0", "1", "/", "0", "2", "/", "2", "5">>))

-----------------------------------------------------------------------------
(* Specification of normalize_value applied twice: once to an input value and
   once more to what the first call returned. *)

MaxTextLen == 3

\* a list or a mapping, as parsed JSON can hold one in place of a scalar
VContainer(items) == [t |-> "list", s |-> items, n |-> 0, e |-> 0, neg |-> 0]

TextSymbols ==
    {" ", "-", "+", ".", "_", "0", "1", "5", "e", "TRUE", "FALSE", "null", "text", "nan",
     "Infinity"}
Texts == UNION { [1..n -> TextSymbols] : n \in 0..MaxTextLen }
TypedValues ==
    { VBool(TRUE), VBool(FALSE), VNull, VInt(1), VInt(0), VInt(0 - 3),
      VFloat(15, 1, 0), VFloat(0, 0, 1), VFloatSpecial("nan", 0), VFloatSpecial("inf", 1),
      VContainer(<<>>), VContainer(<<"1", "TRUE">>) }
\* numeric texts are taken with a decimal exponent of at most MaxExponent, so
\* that the scaled digits stay within the integers of the checker
MaxExponent == 5
ExponentInRange(t) ==
    LET s == strip(t)
    IN  (s # <<>> /\ IsFloatText(s) /\ ~IsSpecialText(s))
           => DigitsVal(RunDigits(Exponent(Unsigned(s)))) <= MaxExponent
NormalizeInputs == TypedValues \cup { VStr(t) : t \in {x \in Texts : ExponentInRange(x)} }

InitNormalize ==
    /\ pc = "normalize"
    /\ raw_value \in NormalizeInputs
    /\ normalized = VNull /\ renormalized = VNull
    /\ entries = <<>> /\ idx = 1
    /\ SplitVarsInit /\ BoundaryVarsInit /\ MpdVarsInit /\ MpsVarsInit
    /\ OtherVarsInit /\ TransformVarsInit /\ ConvertVarsInit

normalize_call ==
    /\ pc = "normalize"
    /\ normalized' = normalize_value(raw_value)
    /\ pc' = "normalized"
    /\ UNCHANGED <<entries, idx, raw_value, renormalized, splitVars, boundaryVars, mpdVars,
                   mpsVars, otherVars, transformVars, convertVars>>

normalize_again ==
    /\ pc = "normalized"
    /\ renormalized' = normalize_value(normalized)
    /\ pc' = "renormalized"
    /\ UNCHANGED <<entries, idx, raw_value, normalized, splitVars, boundaryVars, mpdVars,
                   mpsVars, otherVars, transformVars, convertVars>>

NextNormalize == normalize_call \/ normalize_again
SpecNormalize == InitNormalize /\ [][NextNormalize]_vars

\* the six values the specification lists
ListedValues ==
    { VBool(TRUE), VBool(FALSE), VNull, VInt(1), VFloat(15, 1, 0), VStr(<<"text">>) }

-----------------------------------------------------------------------------
(* The convert request handler (app.py): one request, from the form fields to
   the response.  images holds the uploaded files (their bytes), entries the
   "data" list of the record stored under json_key, pdf_bytes the uploaded
   PDF; images_meta is the list handed to transform_json, document what it
   returned, response the HTTP status, s3_calls the calls made to the object
   store, in order. *)

REQUIRED_CATEGORIES ==
    { <<"coverPhoto">>, <<"characteristicHeatExchanger">>, <<"characteristicOpeningStructure">> }
AllowedCategories == REQUIRED_CATEGORIES \cup { <<"other">> }

\* zip(images, categories, notes): as many triples as the shortest list has
zip(imgs, cats, nts) ==
    [j \in 1..Min({Len(imgs), Len(cats), Len(nts)}) |->
        [content |-> imgs[j], note |-> nts[j], category |-> cats[j]]]

\* line 192 with "or" where the source has "and"
lengths_mismatch_either(imgs, cats, nts) ==
    Len(imgs) # Len(cats) \/ Len(imgs) # Len(nts)

\* line 192
lengths_mismatch(imgs, cats, nts) ==
    Len(imgs) # Len(cats) /\ Len(imgs) # Len(nts)

\* set(categories)
present_cats(cats) == { cats[j] : j \in 1..Len(cats) }

\* lines 192-202: the request is rejected with 400
convert_rejects(imgs, cats, nts) ==
    \/ lengths_mismatch(imgs, cats, nts)
    \/ ~(REQUIRED_CATEGORIES \subseteq present_cats(cats))

MaxUploads == 3

UploadSet == { [j \in 1..n |-> <<j>>] : n \in 1..MaxUploads }
CategoriesSet == UNION { [1..n -> AllowedCategories] : n \in 1..MaxUploads }
NotesSet == { [j \in 1..n |-> <<"n">>] : n \in 1..MaxUploads }
StoredRecords ==
    { FlatRecord([kind |-> "none", k |-> 0], DefaultDate),
      FlatRecord([kind |-> "null", k |-> 1], DefaultDate) }

InitConvert ==
    /\ pc = "convert"
    /\ images \in UploadSet
    /\ categories \in CategoriesSet
    /\ notes \in NotesSet
    /\ entries \in StoredRecords
    /\ pdf_bytes = <<37, 80, 68>>
    /\ images_meta = <<>> /\ response = 0 /\ s3_calls = <<>>
    /\ document = NoDocument
    /\ idx = 1
    /\ SplitVarsInit /\ BoundaryVarsInit /\ MpdVarsInit /\ MpsVarsInit /\ OtherVarsInit
    /\ NormalizeVarsInit

\* lines 176-253; get_ok, json_ok: whether get_object and the JSON parse
\* succeed.  An exception of transform_json is not caught: the framework
\* answers 500 and the record is not deleted.  A failure of delete_object is
\* logged only.
convert ==
    /\ pc = "convert"
    /\ pc' = "convert_done"
    /\ \E get_ok \in BOOLEAN, json_ok \in BOOLEAN :
          IF convert_rejects(images, categories, notes)
          THEN /\ response' = 400
               /\ UNCHANGED <<s3_calls, images_meta, document>>
          ELSE IF ~get_ok
          THEN /\ response' = 500
               /\ s3_calls' = <<"get_object">>
               /\ UNCHANGED <<images_meta, document>>
          ELSE IF ~json_ok
          THEN /\ response' = 400
               /\ s3_calls' = <<"get_object">>
               /\ UNCHANGED <<images_meta, document>>
          ELSE /\ images_meta' = zip(images, categories, notes)
               /\ document' = transform_json(entries, pdf_bytes, images_meta')
               /\ IF document'.status = "error"
                  THEN response' = 500 /\ s3_calls' = <<"get_object">>
                  ELSE response' = 200 /\ s3_calls' = <<"get_object", "delete_object">>
    /\ UNCHANGED <<entries, idx, pdf_bytes, images, categories, notes, splitVars,
                   boundaryVars, mpdVars, mpsVars, otherVars, normalizeVars>>

NextConvert == convert
SpecConvert == InitConvert /\ [][NextConvert]_vars

\* transform_json was invoked by the request
EngineInvoked == document.status # "none"
\* the categories of the images handed to transform_json
PassedCategories == { images_meta[j].category : j \in 1..Len(images_meta) }

\* C12: for every combination of uploaded images, categories and notes,
\* transform_json is invoked only with images that cover the three required
\* categories; a request whose images do not is rejected with 400 before the
\* stored record is downloaded, transformed or deleted.
C12_EngineGetsRequired ==
    pc = "convert_done" =>
        /\ EngineInvoked => REQUIRED_CATEGORIES \subseteq PassedCategories
        /\ ~(REQUIRED_CATEGORIES \subseteq
                { zip(images, categories, notes)[j].category :
                     j \in 1..Len(zip(images, categories, notes)) })
              => (response = 400 /\ s3_calls = <<>> /\ ~EngineInvoked)

\* what does hold: a request whose categories field lacks a required category
\* is rejected with 400 before any call of the object store or the engine,
\* and the engine gets the three required categories whenever the three lists
\* have the same length
C12_RequiredWhenLengthsAgree ==
    pc = "convert_done" =>
        /\ ~(REQUIRED_CATEGORIES \subseteq present_cats(categories))
              => (response = 400 /\ s3_calls = <<>> /\ ~EngineInvoked)
        /\ (EngineInvoked /\ ~lengths_mismatch_either(images, categories, notes))
              => REQUIRED_CATEGORIES \subseteq PassedCategories

\* a request of one image, three categories and one note reached the engine
C12_TruncatedReachesEngine ==
    /\ pc = "convert_done"
    /\ Len(images) = 1 /\ Len(categories) = 3 /\ Len(notes) = 1
    /\ EngineInvoked
    /\ response = 200
    /\ PassedCategories = { <<"coverPhoto">> }

-----------------------------------------------------------------------------
(* Specification for the per-system accumulators of process_mps: streams of
   two kinds of markers with notes, actual-quality fields, categories and
   elements before, between and after them *)

MaxLeakLen == 5

LeakEntrySet ==
    { SysType(<<"H">>), SysType(<<"K">>), SysNote(<<"n">>),
      ActualQ("quality", <<"A">>), Category(<<"C">>),
      Element("name", <<"E">>), Element("description", <<"d">>) }

NextMpsLeak == mps_step(LeakEntrySet, MaxLeakLen) \/ mps_return
SpecMpsLeak == InitMps /\ [][NextMpsLeak]_vars

\* the stream cut at its markers: part 0 is what precedes the first marker,
\* part k runs from the k-th marker up to the next marker or the end
StreamPart(k) ==
    LET Rank(m) == Cardinality({x \in MarkerPositions : x <= m})
        start   == IF k = 0 THEN 1 ELSE CHOOSE m \in MarkerPositions : Rank(m) = k
        stop    == Min({Len(entries) + 1} \cup {m \in MarkerPositions : m > start \/ k = 0})
    IN  SubSeq(entries, start, stop - 1)

\* the records of parts k..n, each part processed on its own
RECURSIVE PartsProcessed(_, _)
PartsProcessed(k, n) ==
    IF k > n THEN <<>> ELSE process_mps(StreamPart(k)) \o PartsProcessed(k + 1, n)

\* C13: the per-system accumulators of process_mps never leak across systems:
\* right after a buildingServiceSystemType entry is processed the open system
\* holds its type only and the actual-quality accumulator, the groups, the
\* current group and the open element are empty; the output is what each
\* part of the stream between two markers gives when processed on its own,
\* so a record holds nothing read outside its part and an element left open
\* at a marker is in the earlier record.
C13_NoLeakAcrossSystems ==
    /\ (pc = "mps" /\ entries # <<>> /\ IsSystemTypeEntry(entries[Len(entries)])) =>
          /\ current_system =
                [NoSystem EXCEPT !.some = TRUE, !.hasType = TRUE,
                                 !.type = normalize_value(entries[Len(entries)].v)]
          /\ current_actual = NoActual
          /\ recommended_by_cat = NoGroups
          /\ current_recommended = 0
          /\ current_element = NoElement
    /\ pc = "mps_done" =>
          systems = PartsProcessed(0, Cardinality(MarkerPositions))

\* C13 witness: H, category C, element E left open, K, note n: the element is
\* in the record of H, the note in the record of K
C13_Witness ==
    /\ pc = "mps_done"
    /\ entries = << SysType(<<"H">>), Category(<<"C">>), Element("name", <<"E">>),
                    SysType(<<"K">>), SysNote(<<"n">>) >>
    /\ Len(systems) = 2
    /\ systems[1].type = VStr(<<"H">>) /\ systems[1].hasRec /\ ~systems[1].hasNote
    /\ Len(systems[1].rec) = 1
    /\ systems[2].type = VStr(<<"K">>) /\ ~systems[2].hasRec /\ systems[2].hasNote


\* C13 as claimed: every output record is the record of a marker and holds what
\* was read between its marker and the next
C13_AsClaimed ==
    pc = "mps_done" => systems = PartsProcessed(1, Cardinality(MarkerPositions))

-----------------------------------------------------------------------------
(* Specification for path collisions in process_other: keys that write a
   scalar, a mapping and an array at the same places *)

MaxCollisionsLen == 4

CollisionsEntrySet ==
    { OEntry(<< <<"a">> >>, <<"s">>),
      OEntry(<< <<"a">>, <<"b">> >>, <<"1">>),
      OEntry(<< <<"a">>, <<"b">>, <<"c">> >>, <<"2">>),
      OEntry(<< <<"a", "_", "0">> >>, <<"x">>),
      OEntry(<< <<"a">>, <<"b", "_", "0">> >>, <<"y">>),
      OEntry(<< <<"a">>, <<"d">> >>, <<"3">>),
      OEntry(<< <<"a">>, <<"b">> >>, <<>>) }

NextOtherCollisions == other_step(CollisionsEntrySet, MaxCollisionsLen) \/ other_return
SpecOtherCollisions == InitOther /\ [][NextOtherCollisions]_vars

\* the paths an entry's path passes through
PassedThrough(path) == { SubSeq(path, 1, k) : k \in 1..(Len(path) - 1) }
\* the path an entry writes: a last segment <base>_<digits> writes <base>
WrittenPath(segs) ==
    LET last == segs[Len(segs)]
    IN  Append(SubSeq(segs, 1, Len(segs) - 1),
               IF IsArraySegment(last) THEN ArrayBase(last) ELSE last)

\* C14: path collisions in process_other are resolved by last writer wins: a
\* non-skipped entry leaves a mapping at every segment its path passes
\* through, and where that segment held a scalar or an array nothing of it
\* remains; the field it sets holds the new value alone (for <base>_<digits>
\* the array with the value appended), whatever mapping, array or scalar was
\* there, with nothing left below it; every other field is as it was.
C14_LastWriterWins ==
    [][ (pc = "other" /\ entries' # entries) =>
          LET e      == entries'[Len(entries')]
              val    == normalize_value(e.v)
              segs   == split(e.k)
              last   == segs[Len(segs)]
              target == WrittenPath(segs)
              written == PassedThrough(target) \cup {target}
          IN  IF val = VNull \/ val = VStr(<<>>)
              THEN result' = result
              ELSE /\ written \subseteq DOMAIN result'
                   /\ \A p \in PassedThrough(target) :
                         /\ result'[p] = DictNode
                         /\ (p \in DOMAIN result /\ result[p].kind # "dict") =>
                               {q \in DOMAIN result' : IsStrictPrefix(p, q)} \subseteq written
                   /\ result'[target] =
                         IF IsArraySegment(last)
                         THEN ListNode(Append(IF target \in DOMAIN result
                                                   /\ result[target].kind = "list"
                                              THEN result[target].lv ELSE <<>>, val))
                         ELSE ScalarNode(val)
                   /\ \A q \in DOMAIN result' : ~IsStrictPrefix(target, q)
                   /\ \A q \in DOMAIN result' \ written :
                         q \in DOMAIN result /\ result'[q] = result[q]
                   /\ \A q \in DOMAIN result :
                         \/ q \in DOMAIN result'
                         \/ IsStrictPrefix(target, q)
                         \/ \E p \in PassedThrough(target) :
                               IsStrictPrefix(p, q) /\ result[p].kind # "dict"
      ]_vars

\* C14 witness: a__b=1, a=s, a__b__c=2: the mapping under a was replaced by the
\* text s, and the text by a mapping again, which holds b.c only
C14_Witness ==
    /\ pc = "other_done"
    /\ entries = << OEntry(<< <<"a">>, <<"b">> >>, <<"1">>),
                    OEntry(<< <<"a">> >>, <<"s">>),
                    OEntry(<< <<"a">>, <<"b">>, <<"c">> >>, <<"2">>) >>
    /\ DOMAIN result = { <<>>, << <<"a">> >>, << <<"a">>, <<"b">> >>,
                         << <<"a">>, <<"b">>, <<"c">> >> }
    /\ result[<< <<"a">> >>] = DictNode
    /\ result[<< <<"a">>, <<"b">> >>] = DictNode
    /\ result[<< <<"a">>, <<"b">>, <<"c">> >>] = ScalarNode(VInt(2))

====
